---- MODULE Spec2Model ----
(***************************************************************************)
(* Verification model of hashicorp/golang-lru: the simplelru LRU / SIEVE   *)
(* core, the thread-safe Cache wrapper with its eviction buffer, the 2Q    *)
(* and ARC policies, and the lock discipline around the eviction callback. *)
(***************************************************************************)
EXTENDS Integers, Sequences, FiniteSets, TLC

\* ---------------------------------------------------------------- bounds
MaxKey == 3
MaxVal == 2
MaxSize == 2
NumProcs == 2
MaxCalls == 3
MaxTicks == 1
MaxTTL == 1
MaxTime == 2
MaxFresh == 3
MaxExpiry == 2
MaxTimer == 3
MaxFillKey == 2
MaxSweepKey == 2
MaxActive == 1
NumCallers == 1
MaxBackKey == 2
MaxEntries == 2
MaxTimedKey == 2
MaxTsKey == 2
MaxRefs == 3
MaxQueue == 2

Keys == 1..MaxKey
Vals == 1..MaxVal
Sizes == 0..MaxSize

\* the zero value of a key or value type (Go's `var k K`)
Zero == 0

\* ------------------------------------------------------- sequence helpers
RemoveAt(s, i) == SubSeq(s, 1, i - 1) \o SubSeq(s, i + 1, Len(s))

\* all orders in which the elements of a finite set can be enumerated
\* (Go's randomized map iteration)
Orders(S) == {f \in [1..Cardinality(S) -> S] : \A x \in S : \E i \in DOMAIN f : f[i] = x}

\* ------------------------------------------------ OrderedList (LruList)
\* The list is a sequence of entries; index 1 is the front (newest), the
\* last index is the back (oldest).  An entry is a record Key/Value/Visited.
NewEntry(k, v) == [Key |-> k, Value |-> v, Visited |-> FALSE]

PushFront(l, k, v) == <<NewEntry(k, v)>> \o l

IndexOf(l, k) == CHOOSE i \in DOMAIN l : l[i].Key = k

MoveToFront(l, i) == <<l[i]>> \o RemoveAt(l, i)

\* a reference to an entry: nil, an entry linked in the list (named by its
\* key, unique in the list), or an entry that was unlinked (detached) and is
\* kept alive only by the reference
NilRef == [kind |-> "nil", Key |-> Zero, Value |-> Zero, Visited |-> FALSE]

LiveRef(k) == [kind |-> "live", Key |-> k, Value |-> Zero, Visited |-> FALSE]

StaleRef(e) == [kind |-> "stale", Key |-> e.Key, Value |-> e.Value, Visited |-> e.Visited]

Back(l) == IF Len(l) = 0 THEN NilRef ELSE LiveRef(l[Len(l)].Key)

\* PrevEntry: the next newer entry, nil at the front and for a detached entry
PrevEntry(l, ref) ==
  IF ref.kind # "live" THEN NilRef
  ELSE IF IndexOf(l, ref.Key) = 1 THEN NilRef
  ELSE LiveRef(l[IndexOf(l, ref.Key) - 1].Key)

\* ------------------------------------------------------- simplelru.LRU
NewLRU(size, sieve) ==
  [size |-> size, evictList |-> <<>>, hand |-> NilRef, useSieve |-> sieve]

items(c) == {c.evictList[i].Key : i \in DOMAIN c.evictList}

\* result of a simplelru call: the cache after the call, the onEvict calls it
\* made (in order), the returned key/value/flag, and whether it panicked
Res(c, ev, k, v, ok, panic) ==
  [c |-> c, ev |-> ev, k |-> k, v |-> v, ok |-> ok, panic |-> panic]

\* removeElement of the linked entry at index i
removeElement(c, i) ==
  LET e == c.evictList[i]
      h == IF c.hand.kind = "live" /\ c.hand.Key = e.Key THEN StaleRef(e) ELSE c.hand
  IN Res([c EXCEPT !.evictList = RemoveAt(c.evictList, i), !.hand = h],
         <<<<e.Key, e.Value>>>>, e.Key, e.Value, TRUE, FALSE)

RECURSIVE SieveScan(_, _)
\* the loop of getSieveCandidate on a non-empty list: returns <<list, hand,
\* number of evaluations of c.hand.Visited>>
SieveScan(l, h) ==
  LET onward(r) == <<r[1], r[2], r[3] + 1>> IN
  IF h.kind = "stale"
  THEN IF h.Visited THEN onward(SieveScan(l, Back(l))) ELSE <<l, h, 1>>
  ELSE LET i == IndexOf(l, h.Key) IN
       IF l[i].Visited
       THEN LET l2 == [l EXCEPT ![i].Visited = FALSE]
                p == PrevEntry(l, h)
            IN onward(SieveScan(l2, IF p.kind = "nil" THEN Back(l2) ELSE p))
       ELSE <<l, h, 1>>

getSieveCandidate(c) ==
  IF Len(c.evictList) = 0 THEN c
  ELSE LET h0 == IF c.hand.kind = "nil" THEN Back(c.evictList) ELSE c.hand
           r == SieveScan(c.evictList, h0)
       IN [c EXCEPT !.evictList = r[1], !.hand = r[2]]

performSieveEviction(c) ==
  LET evict(c1) ==
        IF c1.hand.kind = "nil" THEN Res(c1, <<>>, Zero, Zero, FALSE, FALSE)
        ELSE IF c1.hand.kind = "stale"
             \* unlinking an entry that is not in the list
             THEN Res([c1 EXCEPT !.hand = NilRef], <<>>, Zero, Zero, FALSE, TRUE)
             ELSE removeElement([c1 EXCEPT !.hand = PrevEntry(c1.evictList, c1.hand)],
                                IndexOf(c1.evictList, c1.hand.Key))
  IN evict(getSieveCandidate(c))

\* variant: evicts the newest entry instead of the oldest
removeOldest_newest(c) ==
  IF c.useSieve THEN performSieveEviction(c)
  ELSE IF Len(c.evictList) > 0 THEN removeElement(c, 1)
  ELSE Res(c, <<>>, Zero, Zero, FALSE, FALSE)

removeOldest(c) ==
  IF c.useSieve THEN performSieveEviction(c)
  ELSE IF Len(c.evictList) > 0 THEN removeElement(c, Len(c.evictList))
  ELSE Res(c, <<>>, Zero, Zero, FALSE, FALSE)

\* variant: an Add of a resident key updates the value in place and leaves
\* the entry where it is in the list
LRU_Add_inPlace(c, key, value) ==
  IF key \in items(c)
  THEN LET i == IndexOf(c.evictList, key)
           l1 == IF c.useSieve THEN [c.evictList EXCEPT ![i].Visited = TRUE]
                 ELSE c.evictList
           j == IndexOf(l1, key)
       IN Res([c EXCEPT !.evictList = [l1 EXCEPT ![j].Value = value]],
              <<>>, Zero, Zero, FALSE, FALSE)
  ELSE IF c.useSieve
  THEN LET full == Len(c.evictList) >= c.size
           push(r) ==
             IF r.panic THEN r
             ELSE Res([r.c EXCEPT !.evictList = PushFront(r.c.evictList, key, value)],
                      r.ev, Zero, Zero, full, FALSE)
       IN push(IF full THEN performSieveEviction(c)
               ELSE Res(c, <<>>, Zero, Zero, FALSE, FALSE))
  ELSE LET c1 == [c EXCEPT !.evictList = PushFront(c.evictList, key, value)]
           evict == Len(c1.evictList) > c1.size
           done(r) == Res(r.c, r.ev, Zero, Zero, evict, r.panic)
       IN done(IF evict THEN removeOldest(c1)
               ELSE Res(c1, <<>>, Zero, Zero, FALSE, FALSE))

LRU_Add(c, key, value) ==
  IF key \in items(c)
  THEN LET i == IndexOf(c.evictList, key)
           l1 == IF c.useSieve THEN [c.evictList EXCEPT ![i].Visited = TRUE]
                 ELSE MoveToFront(c.evictList, i)
           j == IndexOf(l1, key)
       IN Res([c EXCEPT !.evictList = [l1 EXCEPT ![j].Value = value]],
              <<>>, Zero, Zero, FALSE, FALSE)
  ELSE IF c.useSieve
  THEN LET full == Len(c.evictList) >= c.size
           push(r) ==
             IF r.panic THEN r
             ELSE Res([r.c EXCEPT !.evictList = PushFront(r.c.evictList, key, value)],
                      r.ev, Zero, Zero, full, FALSE)
       IN push(IF full THEN performSieveEviction(c)
               ELSE Res(c, <<>>, Zero, Zero, FALSE, FALSE))
  ELSE LET c1 == [c EXCEPT !.evictList = PushFront(c.evictList, key, value)]
           evict == Len(c1.evictList) > c1.size
           done(r) == Res(r.c, r.ev, Zero, Zero, evict, r.panic)
       IN done(IF evict THEN removeOldest(c1)
               ELSE Res(c1, <<>>, Zero, Zero, FALSE, FALSE))

\* variant: in Sieve mode a hit sets the visited bit and also moves the
\* entry to the front, as LRU mode does
LRU_Get_sieveMoves(c, key) ==
  IF key \in items(c)
  THEN LET i == IndexOf(c.evictList, key)
           e == c.evictList[i]
           l1 == IF c.useSieve
                 THEN MoveToFront([c.evictList EXCEPT ![i].Visited = TRUE], i)
                 ELSE MoveToFront(c.evictList, i)
       IN Res([c EXCEPT !.evictList = l1], <<>>, key, e.Value, TRUE, FALSE)
  ELSE Res(c, <<>>, Zero, Zero, FALSE, FALSE)

\* variant: a hit returns the value and leaves the entry where it is
LRU_Get_noMove(c, key) ==
  IF key \in items(c)
  THEN LET i == IndexOf(c.evictList, key)
           e == c.evictList[i]
           l1 == IF c.useSieve THEN [c.evictList EXCEPT ![i].Visited = TRUE]
                 ELSE c.evictList
       IN Res([c EXCEPT !.evictList = l1], <<>>, key, e.Value, TRUE, FALSE)
  ELSE Res(c, <<>>, Zero, Zero, FALSE, FALSE)

LRU_Get(c, key) ==
  IF key \in items(c)
  THEN LET i == IndexOf(c.evictList, key)
           e == c.evictList[i]
           l1 == IF c.useSieve THEN [c.evictList EXCEPT ![i].Visited = TRUE]
                 ELSE MoveToFront(c.evictList, i)
       IN Res([c EXCEPT !.evictList = l1], <<>>, key, e.Value, TRUE, FALSE)
  ELSE Res(c, <<>>, Zero, Zero, FALSE, FALSE)

LRU_Contains(c, key) == key \in items(c)

\* variant: Peek moves the entry to the front, as Get does
LRU_Peek_moving(c, key) ==
  IF key \in items(c)
  THEN LET i == IndexOf(c.evictList, key)
       IN Res([c EXCEPT !.evictList = MoveToFront(c.evictList, i)],
              <<>>, key, c.evictList[i].Value, TRUE, FALSE)
  ELSE Res(c, <<>>, Zero, Zero, FALSE, FALSE)

LRU_Peek(c, key) ==
  IF key \in items(c)
  THEN Res(c, <<>>, key, c.evictList[IndexOf(c.evictList, key)].Value, TRUE, FALSE)
  ELSE Res(c, <<>>, Zero, Zero, FALSE, FALSE)

LRU_Remove(c, key) ==
  IF key \in items(c) THEN removeElement(c, IndexOf(c.evictList, key))
  ELSE Res(c, <<>>, Zero, Zero, FALSE, FALSE)

LRU_RemoveOldest(c) ==
  IF c.useSieve THEN performSieveEviction(c)
  ELSE IF Len(c.evictList) > 0 THEN removeElement(c, Len(c.evictList))
  ELSE Res(c, <<>>, Zero, Zero, FALSE, FALSE)

LRU_GetOldest(c) ==
  IF c.useSieve
  THEN LET oldest(c1) ==
             IF c1.hand.kind = "nil" THEN Res(c1, <<>>, Zero, Zero, FALSE, FALSE)
             ELSE IF c1.hand.kind = "stale"
                  THEN Res(c1, <<>>, c1.hand.Key, c1.hand.Value, TRUE, FALSE)
                  ELSE LET e == c1.evictList[IndexOf(c1.evictList, c1.hand.Key)]
                       IN Res(c1, <<>>, e.Key, e.Value, TRUE, FALSE)
       IN oldest(getSieveCandidate(c))
  ELSE IF Len(c.evictList) > 0
       THEN LET e == c.evictList[Len(c.evictList)]
            IN Res(c, <<>>, e.Key, e.Value, TRUE, FALSE)
       ELSE Res(c, <<>>, Zero, Zero, FALSE, FALSE)

\* Keys: from the back of the list to the front (oldest to newest)
LRU_Keys(c) == [i \in 1..Len(c.evictList) |-> c.evictList[Len(c.evictList) + 1 - i].Key]

LRU_Len(c) == Len(c.evictList)

LRU_Cap(c) == c.size

RECURSIVE ResizeLoop(_, _, _)
\* the eviction loop of Resize: n evictions still to run, ev collected so far
ResizeLoop(c, n, ev) ==
  IF n = 0 THEN Res(c, ev, Zero, Zero, TRUE, FALSE)
  ELSE LET next(r) ==
             IF r.panic THEN Res(r.c, ev \o r.ev, Zero, Zero, FALSE, TRUE)
             ELSE ResizeLoop(r.c, n - 1, ev \o r.ev)
       IN next(removeOldest(c))

\* variant: the evictions run and the capacity is left as it was
LRU_Resize_keepsSize(c, size) ==
  LET d == Len(c.evictList) - size
      diff == IF d < 0 THEN 0 ELSE d
      done(r) ==
        IF r.panic THEN r
        ELSE Res(r.c, r.ev, diff, diff, TRUE, FALSE)
  IN done(ResizeLoop(c, diff, <<>>))

\* Resize: k and v of the result carry the returned count
LRU_Resize(c, size) ==
  LET d == Len(c.evictList) - size
      diff == IF d < 0 THEN 0 ELSE d
      done(r) ==
        IF r.panic THEN r
        ELSE Res([r.c EXCEPT !.size = size], r.ev, diff, diff, TRUE, FALSE)
  IN done(ResizeLoop(c, diff, <<>>))

\* Purge: the map is ranged over in the order `order` (a sequence of list
\* indices); the list is re-initialised, the hand is left as it was
LRU_Purge(c, order) ==
  LET h == IF c.hand.kind = "live"
           THEN StaleRef(c.evictList[IndexOf(c.evictList, c.hand.Key)])
           ELSE c.hand
  IN Res([c EXCEPT !.evictList = <<>>, !.hand = h],
         [i \in 1..Len(c.evictList) |->
            <<c.evictList[order[i]].Key, c.evictList[order[i]].Value>>],
         Zero, Zero, TRUE, FALSE)

\* ------------------------------------------------------- TwoQueueCache
\* ratios are given in percent; 25 and 50 are Default2QRecentRatio and
\* Default2QGhostEntries; the ones used are exact in float64
Ratios == {0, 25, 50, 100}

\* int(float64(size) * ratio)
SubSize(size, ratio) == (size * ratio) \div 100

\* New2QParams returns an error (no cache) unless this holds
New2QParamsOk(size, recentRatio, ghostRatio) ==
  /\ size > 0
  /\ recentRatio >= 0 /\ recentRatio <= 100
  /\ ghostRatio >= 0 /\ ghostRatio <= 100
  /\ SubSize(size, ghostRatio) > 0

\* variant: the ghost list is allocated with the size of the cache
New2QParams_ghostOfSize(size, recentRatio, ghostRatio) ==
  [size |-> size,
   recentSize |-> SubSize(size, recentRatio),
   recent |-> NewLRU(size, FALSE),
   frequent |-> NewLRU(size, FALSE),
   recentEvict |-> NewLRU(size, FALSE)]

New2QParams(size, recentRatio, ghostRatio) ==
  [size |-> size,
   recentSize |-> SubSize(size, recentRatio),
   recent |-> NewLRU(size, FALSE),
   frequent |-> NewLRU(size, FALSE),
   recentEvict |-> NewLRU(SubSize(size, ghostRatio), FALSE)]

ensureSpace(c, recentEvict) ==
  LET recentLen == LRU_Len(c.recent)
      freqLen == LRU_Len(c.frequent)
  IN IF recentLen + freqLen < c.size THEN Res(c, <<>>, Zero, Zero, FALSE, FALSE)
     ELSE IF recentLen > 0 /\ (recentLen > c.recentSize
                               \/ (recentLen = c.recentSize /\ ~recentEvict))
     THEN LET ghost(r) ==
                Res([c EXCEPT !.recent = r.c,
                              !.recentEvict = LRU_Add(c.recentEvict, r.k, Zero).c],
                    r.ev, r.k, r.v, r.ok, FALSE)
          IN ghost(LRU_RemoveOldest(c.recent))
     ELSE LET drop(r) == Res([c EXCEPT !.frequent = r.c], r.ev, r.k, r.v, r.ok, FALSE)
          IN drop(LRU_RemoveOldest(c.frequent))

\* variant: a hit in recent is added to frequent and left in recent
TwoQueueCache_Get_noRemove(c, key) ==
  LET promote(p) ==
        IF p.ok
        THEN Res([c EXCEPT !.frequent = LRU_Add(c.frequent, key, p.v).c],
                 <<>>, key, p.v, TRUE, FALSE)
        ELSE Res(c, <<>>, Zero, Zero, FALSE, FALSE)
      hit(f) ==
        IF f.ok THEN Res([c EXCEPT !.frequent = f.c], <<>>, key, f.v, TRUE, FALSE)
        ELSE promote(LRU_Peek(c.recent, key))
  IN hit(LRU_Get(c.frequent, key))

TwoQueueCache_Get(c, key) ==
  LET promote(p) ==
        IF p.ok
        THEN Res([c EXCEPT !.recent = LRU_Remove(c.recent, key).c,
                           !.frequent = LRU_Add(c.frequent, key, p.v).c],
                 <<>>, key, p.v, TRUE, FALSE)
        ELSE Res(c, <<>>, Zero, Zero, FALSE, FALSE)
      hit(f) ==
        IF f.ok THEN Res([c EXCEPT !.frequent = f.c], <<>>, key, f.v, TRUE, FALSE)
        ELSE promote(LRU_Peek(c.recent, key))
  IN hit(LRU_Get(c.frequent, key))

TwoQueueCache_Add(c, key, value) ==
  IF LRU_Contains(c.frequent, key)
  THEN Res([c EXCEPT !.frequent = LRU_Add(c.frequent, key, value).c],
           <<>>, Zero, Zero, FALSE, FALSE)
  ELSE IF LRU_Contains(c.recent, key)
  THEN Res([c EXCEPT !.recent = LRU_Remove(c.recent, key).c,
                     !.frequent = LRU_Add(c.frequent, key, value).c],
           <<>>, Zero, Zero, FALSE, FALSE)
  ELSE IF LRU_Contains(c.recentEvict, key)
  THEN LET toFrequent(s) ==
             Res([s.c EXCEPT !.recentEvict = LRU_Remove(s.c.recentEvict, key).c,
                             !.frequent = LRU_Add(s.c.frequent, key, value).c],
                 s.ev, s.k, s.v, s.ok, FALSE)
       IN toFrequent(ensureSpace(c, TRUE))
  ELSE LET toRecent(s) ==
             Res([s.c EXCEPT !.recent = LRU_Add(s.c.recent, key, value).c],
                 s.ev, s.k, s.v, s.ok, FALSE)
       IN toRecent(ensureSpace(c, FALSE))

TwoQueueCache_Len(c) == LRU_Len(c.recent) + LRU_Len(c.frequent)

TwoQueueCache_Keys(c) == LRU_Keys(c.frequent) \o LRU_Keys(c.recent)

TwoQueueCache_Remove(c, key) ==
  IF LRU_Remove(c.frequent, key).ok
  THEN Res([c EXCEPT !.frequent = LRU_Remove(c.frequent, key).c],
           <<>>, Zero, Zero, TRUE, FALSE)
  ELSE IF LRU_Remove(c.recent, key).ok
  THEN Res([c EXCEPT !.recent = LRU_Remove(c.recent, key).c],
           <<>>, Zero, Zero, TRUE, FALSE)
  ELSE Res([c EXCEPT !.recentEvict = LRU_Remove(c.recentEvict, key).c],
           <<>>, Zero, Zero, FALSE, FALSE)

TwoQueueCache_Purge(c) ==
  [c EXCEPT !.recent = NewLRU(c.recent.size, FALSE),
            !.frequent = NewLRU(c.frequent.size, FALSE),
            !.recentEvict = NewLRU(c.recentEvict.size, FALSE)]

TwoQueueCache_Contains(c, key) ==
  LRU_Contains(c.frequent, key) \/ LRU_Contains(c.recent, key)

TwoQueueCache_Peek(c, key) ==
  IF LRU_Peek(c.frequent, key).ok THEN LRU_Peek(c.frequent, key)
  ELSE LRU_Peek(c.recent, key)

\* ------------------------------------------------------------ ARCCache
NewARC(size) ==
  [size |-> size, p |-> 0,
   t1 |-> NewLRU(size, FALSE), b1 |-> NewLRU(size, FALSE),
   t2 |-> NewLRU(size, FALSE), b2 |-> NewLRU(size, FALSE)]

replace(c, b2ContainsKey) ==
  LET t1Len == LRU_Len(c.t1) IN
  IF t1Len > 0 /\ (t1Len > c.p \/ (t1Len = c.p /\ b2ContainsKey))
  THEN LET toB1(r) ==
             Res(IF r.ok THEN [c EXCEPT !.t1 = r.c, !.b1 = LRU_Add(c.b1, r.k, Zero).c]
                 ELSE [c EXCEPT !.t1 = r.c],
                 r.ev, r.k, r.v, r.ok, FALSE)
       IN toB1(LRU_RemoveOldest(c.t1))
  ELSE LET toB2(r) ==
             Res(IF r.ok THEN [c EXCEPT !.t2 = r.c, !.b2 = LRU_Add(c.b2, r.k, Zero).c]
                 ELSE [c EXCEPT !.t2 = r.c],
                 r.ev, r.k, r.v, r.ok, FALSE)
       IN toB2(LRU_RemoveOldest(c.t2))

ARCCache_Get(c, key) ==
  LET hit(g) ==
        IF g.ok THEN Res([c EXCEPT !.t2 = g.c], <<>>, key, g.v, TRUE, FALSE)
        ELSE Res(c, <<>>, Zero, Zero, FALSE, FALSE)
      promote(p1) ==
        IF p1.ok
        THEN Res([c EXCEPT !.t1 = LRU_Remove(c.t1, key).c,
                           !.t2 = LRU_Add(c.t2, key, p1.v).c],
                 <<>>, key, p1.v, TRUE, FALSE)
        ELSE hit(LRU_Get(c.t2, key))
  IN promote(LRU_Peek(c.t1, key))

\* variant: a hit in B2 subtracts delta from p without the floor at 0
ARCCache_Add_unfloored(c, key, value) ==
  IF LRU_Contains(c.t1, key)
  THEN Res([c EXCEPT !.t1 = LRU_Remove(c.t1, key).c,
                     !.t2 = LRU_Add(c.t2, key, value).c],
           <<>>, Zero, Zero, FALSE, FALSE)
  ELSE IF LRU_Contains(c.t2, key)
  THEN Res([c EXCEPT !.t2 = LRU_Add(c.t2, key, value).c],
           <<>>, Zero, Zero, FALSE, FALSE)
  ELSE IF LRU_Contains(c.b1, key)
  THEN LET b1Len == LRU_Len(c.b1)
           b2Len == LRU_Len(c.b2)
           delta == IF b2Len > b1Len THEN b2Len \div b1Len ELSE 1
           c0 == [c EXCEPT !.p = IF c.p + delta >= c.size THEN c.size ELSE c.p + delta]
           toT2(s) ==
             Res([s.c EXCEPT !.b1 = LRU_Remove(s.c.b1, key).c,
                             !.t2 = LRU_Add(s.c.t2, key, value).c],
                 s.ev, s.k, s.v, s.ok, FALSE)
       IN toT2(IF LRU_Len(c0.t1) + LRU_Len(c0.t2) >= c0.size THEN replace(c0, FALSE)
               ELSE Res(c0, <<>>, Zero, Zero, FALSE, FALSE))
  ELSE IF LRU_Contains(c.b2, key)
  THEN LET b1Len == LRU_Len(c.b1)
           b2Len == LRU_Len(c.b2)
           delta == IF b1Len > b2Len THEN b1Len \div b2Len ELSE 1
           c0 == [c EXCEPT !.p = c.p - delta]
           toT2(s) ==
             Res([s.c EXCEPT !.b2 = LRU_Remove(s.c.b2, key).c,
                             !.t2 = LRU_Add(s.c.t2, key, value).c],
                 s.ev, s.k, s.v, s.ok, FALSE)
       IN toT2(IF LRU_Len(c0.t1) + LRU_Len(c0.t2) >= c0.size THEN replace(c0, TRUE)
               ELSE Res(c0, <<>>, Zero, Zero, FALSE, FALSE))
  ELSE LET trimB1(c1) ==
             IF LRU_Len(c1.b1) > c1.size - c1.p
             THEN [c1 EXCEPT !.b1 = LRU_RemoveOldest(c1.b1).c] ELSE c1
           trimB2(c2) ==
             IF LRU_Len(c2.b2) > c2.p
             THEN [c2 EXCEPT !.b2 = LRU_RemoveOldest(c2.b2).c] ELSE c2
           toT1(c3) == [c3 EXCEPT !.t1 = LRU_Add(c3.t1, key, value).c]
           fresh(s) == Res(toT1(trimB2(trimB1(s.c))), s.ev, s.k, s.v, s.ok, FALSE)
       IN fresh(IF LRU_Len(c.t1) + LRU_Len(c.t2) >= c.size THEN replace(c, FALSE)
                ELSE Res(c, <<>>, Zero, Zero, FALSE, FALSE))

\* variant: a new key is added without trimming the ghost lists
ARCCache_Add_noTrim(c, key, value) ==
  IF LRU_Contains(c.t1, key)
  THEN Res([c EXCEPT !.t1 = LRU_Remove(c.t1, key).c,
                     !.t2 = LRU_Add(c.t2, key, value).c],
           <<>>, Zero, Zero, FALSE, FALSE)
  ELSE IF LRU_Contains(c.t2, key)
  THEN Res([c EXCEPT !.t2 = LRU_Add(c.t2, key, value).c],
           <<>>, Zero, Zero, FALSE, FALSE)
  ELSE IF LRU_Contains(c.b1, key)
  THEN LET b1Len == LRU_Len(c.b1)
           b2Len == LRU_Len(c.b2)
           delta == IF b2Len > b1Len THEN b2Len \div b1Len ELSE 1
           c0 == [c EXCEPT !.p = IF c.p + delta >= c.size THEN c.size ELSE c.p + delta]
           toT2(s) ==
             Res([s.c EXCEPT !.b1 = LRU_Remove(s.c.b1, key).c,
                             !.t2 = LRU_Add(s.c.t2, key, value).c],
                 s.ev, s.k, s.v, s.ok, FALSE)
       IN toT2(IF LRU_Len(c0.t1) + LRU_Len(c0.t2) >= c0.size THEN replace(c0, FALSE)
               ELSE Res(c0, <<>>, Zero, Zero, FALSE, FALSE))
  ELSE IF LRU_Contains(c.b2, key)
  THEN LET b1Len == LRU_Len(c.b1)
           b2Len == LRU_Len(c.b2)
           delta == IF b1Len > b2Len THEN b1Len \div b2Len ELSE 1
           c0 == [c EXCEPT !.p = IF delta >= c.p THEN 0 ELSE c.p - delta]
           toT2(s) ==
             Res([s.c EXCEPT !.b2 = LRU_Remove(s.c.b2, key).c,
                             !.t2 = LRU_Add(s.c.t2, key, value).c],
                 s.ev, s.k, s.v, s.ok, FALSE)
       IN toT2(IF LRU_Len(c0.t1) + LRU_Len(c0.t2) >= c0.size THEN replace(c0, TRUE)
               ELSE Res(c0, <<>>, Zero, Zero, FALSE, FALSE))
  ELSE LET toT1(c3) == [c3 EXCEPT !.t1 = LRU_Add(c3.t1, key, value).c]
           fresh(s) == Res(toT1(s.c), s.ev, s.k, s.v, s.ok, FALSE)
       IN fresh(IF LRU_Len(c.t1) + LRU_Len(c.t2) >= c.size THEN replace(c, FALSE)
                ELSE Res(c, <<>>, Zero, Zero, FALSE, FALSE))

ARCCache_Add(c, key, value) ==
  IF LRU_Contains(c.t1, key)
  THEN Res([c EXCEPT !.t1 = LRU_Remove(c.t1, key).c,
                     !.t2 = LRU_Add(c.t2, key, value).c],
           <<>>, Zero, Zero, FALSE, FALSE)
  ELSE IF LRU_Contains(c.t2, key)
  THEN Res([c EXCEPT !.t2 = LRU_Add(c.t2, key, value).c],
           <<>>, Zero, Zero, FALSE, FALSE)
  ELSE IF LRU_Contains(c.b1, key)
  THEN LET b1Len == LRU_Len(c.b1)
           b2Len == LRU_Len(c.b2)
           delta == IF b2Len > b1Len THEN b2Len \div b1Len ELSE 1
           c0 == [c EXCEPT !.p = IF c.p + delta >= c.size THEN c.size ELSE c.p + delta]
           toT2(s) ==
             Res([s.c EXCEPT !.b1 = LRU_Remove(s.c.b1, key).c,
                             !.t2 = LRU_Add(s.c.t2, key, value).c],
                 s.ev, s.k, s.v, s.ok, FALSE)
       IN toT2(IF LRU_Len(c0.t1) + LRU_Len(c0.t2) >= c0.size THEN replace(c0, FALSE)
               ELSE Res(c0, <<>>, Zero, Zero, FALSE, FALSE))
  ELSE IF LRU_Contains(c.b2, key)
  THEN LET b1Len == LRU_Len(c.b1)
           b2Len == LRU_Len(c.b2)
           delta == IF b1Len > b2Len THEN b1Len \div b2Len ELSE 1
           c0 == [c EXCEPT !.p = IF delta >= c.p THEN 0 ELSE c.p - delta]
           toT2(s) ==
             Res([s.c EXCEPT !.b2 = LRU_Remove(s.c.b2, key).c,
                             !.t2 = LRU_Add(s.c.t2, key, value).c],
                 s.ev, s.k, s.v, s.ok, FALSE)
       IN toT2(IF LRU_Len(c0.t1) + LRU_Len(c0.t2) >= c0.size THEN replace(c0, TRUE)
               ELSE Res(c0, <<>>, Zero, Zero, FALSE, FALSE))
  ELSE LET trimB1(c1) ==
             IF LRU_Len(c1.b1) > c1.size - c1.p
             THEN [c1 EXCEPT !.b1 = LRU_RemoveOldest(c1.b1).c] ELSE c1
           trimB2(c2) ==
             IF LRU_Len(c2.b2) > c2.p
             THEN [c2 EXCEPT !.b2 = LRU_RemoveOldest(c2.b2).c] ELSE c2
           toT1(c3) == [c3 EXCEPT !.t1 = LRU_Add(c3.t1, key, value).c]
           fresh(s) == Res(toT1(trimB2(trimB1(s.c))), s.ev, s.k, s.v, s.ok, FALSE)
       IN fresh(IF LRU_Len(c.t1) + LRU_Len(c.t2) >= c.size THEN replace(c, FALSE)
                ELSE Res(c, <<>>, Zero, Zero, FALSE, FALSE))

ARCCache_Len(c) == LRU_Len(c.t1) + LRU_Len(c.t2)

ARCCache_Keys(c) == LRU_Keys(c.t1) \o LRU_Keys(c.t2)

\* variant: removing a key held only in the ghost list B1 reports true
ARCCache_Remove_ghostTrue(c, key) ==
  IF LRU_Remove(c.t1, key).ok
  THEN Res([c EXCEPT !.t1 = LRU_Remove(c.t1, key).c], <<>>, Zero, Zero, TRUE, FALSE)
  ELSE IF LRU_Remove(c.t2, key).ok
  THEN Res([c EXCEPT !.t2 = LRU_Remove(c.t2, key).c], <<>>, Zero, Zero, TRUE, FALSE)
  ELSE IF LRU_Remove(c.b1, key).ok
  THEN Res([c EXCEPT !.b1 = LRU_Remove(c.b1, key).c], <<>>, Zero, Zero, TRUE, FALSE)
  ELSE Res([c EXCEPT !.b2 = LRU_Remove(c.b2, key).c], <<>>, Zero, Zero, FALSE, FALSE)

ARCCache_Remove(c, key) ==
  IF LRU_Remove(c.t1, key).ok
  THEN Res([c EXCEPT !.t1 = LRU_Remove(c.t1, key).c], <<>>, Zero, Zero, TRUE, FALSE)
  ELSE IF LRU_Remove(c.t2, key).ok
  THEN Res([c EXCEPT !.t2 = LRU_Remove(c.t2, key).c], <<>>, Zero, Zero, TRUE, FALSE)
  ELSE IF LRU_Remove(c.b1, key).ok
  THEN Res([c EXCEPT !.b1 = LRU_Remove(c.b1, key).c], <<>>, Zero, Zero, FALSE, FALSE)
  ELSE Res([c EXCEPT !.b2 = LRU_Remove(c.b2, key).c], <<>>, Zero, Zero, FALSE, FALSE)

ARCCache_Purge(c) ==
  [c EXCEPT !.t1 = NewLRU(c.size, FALSE), !.t2 = NewLRU(c.size, FALSE),
            !.b1 = NewLRU(c.size, FALSE), !.b2 = NewLRU(c.size, FALSE)]

ARCCache_Contains(c, key) == LRU_Contains(c.t1, key) \/ LRU_Contains(c.t2, key)

ARCCache_Peek(c, key) ==
  IF LRU_Peek(c.t1, key).ok THEN LRU_Peek(c.t1, key) ELSE LRU_Peek(c.t2, key)

\* -------------------------------------------------------- ExpirableLRU
\* times and durations are counted in seconds
noEvictionTTL == 3600 * 24 * 365 * 10

numBuckets == 100

\* the zero time.Time
ZeroTime == 0

NewExpirableLRU(size, ttl) ==
  [size |-> IF size < 0 THEN 0 ELSE size,
   evictList |-> <<>>,
   ttl |-> IF ttl <= 0 THEN noEvictionTTL ELSE ttl,
   done |-> FALSE,
   buckets |-> [b \in 0..(numBuckets - 1) |-> [entries |-> {}, newestEntry |-> ZeroTime]],
   nextCleanupBucket |-> 0]

\* addToBucket of the entry at index i; nextCleanupBucket is a uint8
ExpirableLRU_addToBucket(c, i) ==
  LET e == c.evictList[i]
      bucketID == ((numBuckets + c.nextCleanupBucket - 1) % 256) % numBuckets
      b == c.buckets[bucketID]
  IN [c EXCEPT !.evictList[i].expireBucket = bucketID,
               !.buckets[bucketID] =
                  [entries |-> b.entries \cup {e.Key},
                   newestEntry |-> IF b.newestEntry < e.expiresAt
                                   THEN e.expiresAt ELSE b.newestEntry]]

ExpirableLRU_removeFromBucket(c, e) ==
  [c EXCEPT !.buckets[e.expireBucket].entries = @ \ {e.Key}]

\* removeElement of the entry at index i; ev is the onEvict call it makes
ExpirableLRU_removeElement(c, i) ==
  LET e == c.evictList[i]
      c1 == [c EXCEPT !.evictList = RemoveAt(c.evictList, i)]
  IN Res(ExpirableLRU_removeFromBucket(c1, e), <<<<e.Key, e.Value>>>>,
         e.Key, e.Value, TRUE, FALSE)

ExpirableLRU_removeOldest(c) ==
  IF Len(c.evictList) > 0 THEN ExpirableLRU_removeElement(c, Len(c.evictList))
  ELSE Res(c, <<>>, Zero, Zero, FALSE, FALSE)

\* variant: an updated entry is not taken out of the bucket it was in
ExpirableLRU_Add_staysInBucket(c, key, value, t) ==
  IF key \in items(c)
  THEN LET l1 == MoveToFront(c.evictList, IndexOf(c.evictList, key))
           c1 == [c EXCEPT !.evictList = l1]
           c2 == [c1 EXCEPT !.evictList[1].Value = value,
                            !.evictList[1].expiresAt = t + c.ttl]
       IN Res(ExpirableLRU_addToBucket(c2, 1), <<>>, Zero, Zero, FALSE, FALSE)
  ELSE LET ent == [Key |-> key, Value |-> value, expiresAt |-> t + c.ttl,
                   expireBucket |-> 0]
           c1 == ExpirableLRU_addToBucket([c EXCEPT !.evictList = <<ent>> \o @], 1)
           evict == c1.size > 0 /\ Len(c1.evictList) > c1.size
           r == IF evict THEN ExpirableLRU_removeOldest(c1)
                ELSE Res(c1, <<>>, Zero, Zero, FALSE, FALSE)
       IN Res(r.c, r.ev, Zero, Zero, evict, FALSE)

ExpirableLRU_Add(c, key, value, t) ==
  IF key \in items(c)
  THEN LET l1 == MoveToFront(c.evictList, IndexOf(c.evictList, key))
           c1 == ExpirableLRU_removeFromBucket([c EXCEPT !.evictList = l1], l1[1])
           c2 == [c1 EXCEPT !.evictList[1].Value = value,
                            !.evictList[1].expiresAt = t + c.ttl]
       IN Res(ExpirableLRU_addToBucket(c2, 1), <<>>, Zero, Zero, FALSE, FALSE)
  ELSE LET ent == [Key |-> key, Value |-> value, expiresAt |-> t + c.ttl,
                   expireBucket |-> 0]
           c1 == ExpirableLRU_addToBucket([c EXCEPT !.evictList = <<ent>> \o @], 1)
           evict == c1.size > 0 /\ Len(c1.evictList) > c1.size
           r == IF evict THEN ExpirableLRU_removeOldest(c1)
                ELSE Res(c1, <<>>, Zero, Zero, FALSE, FALSE)
       IN Res(r.c, r.ev, Zero, Zero, evict, FALSE)

\* Get and Peek assign the named result ok from the map lookup, so the bare
\* return taken for an expired entry returns the zero value with ok = true
ExpirableLRU_Get(c, key, t) ==
  IF key \in items(c)
  THEN LET i == IndexOf(c.evictList, key)
           e == c.evictList[i]
       IN IF t > e.expiresAt THEN Res(c, <<>>, Zero, Zero, TRUE, FALSE)
          ELSE Res([c EXCEPT !.evictList = MoveToFront(c.evictList, i)],
                   <<>>, Zero, e.Value, TRUE, FALSE)
  ELSE Res(c, <<>>, Zero, Zero, FALSE, FALSE)

ExpirableLRU_Peek(c, key, t) ==
  IF key \in items(c)
  THEN LET e == c.evictList[IndexOf(c.evictList, key)]
       IN IF t > e.expiresAt THEN Res(c, <<>>, Zero, Zero, TRUE, FALSE)
          ELSE Res(c, <<>>, Zero, e.Value, TRUE, FALSE)
  ELSE Res(c, <<>>, Zero, Zero, FALSE, FALSE)

ExpirableLRU_Remove(c, key) ==
  IF key \in items(c) THEN ExpirableLRU_removeElement(c, IndexOf(c.evictList, key))
  ELSE Res(c, <<>>, Zero, Zero, FALSE, FALSE)

ExpirableLRU_RemoveOldest(c) ==
  IF Len(c.evictList) > 0 THEN ExpirableLRU_removeElement(c, Len(c.evictList))
  ELSE Res(c, <<>>, Zero, Zero, FALSE, FALSE)

RECURSIVE ExpirableLRU_ResizeLoop(_, _, _)
ExpirableLRU_ResizeLoop(c, n, ev) ==
  IF n = 0 THEN Res(c, ev, Zero, Zero, TRUE, FALSE)
  ELSE LET r == ExpirableLRU_removeOldest(c)
       IN ExpirableLRU_ResizeLoop(r.c, n - 1, ev \o r.ev)

\* Resize: k of the result carries the returned count
ExpirableLRU_Resize(c, size) ==
  IF size <= 0 THEN Res([c EXCEPT !.size = 0], <<>>, 0, Zero, TRUE, FALSE)
  ELSE LET d == Len(c.evictList) - size
           diff == IF d < 0 THEN 0 ELSE d
           r == ExpirableLRU_ResizeLoop(c, diff, <<>>)
       IN Res([r.c EXCEPT !.size = size], r.ev, diff, Zero, TRUE, FALSE)

\* Purge: onEvict for every item in map order, then the buckets and the list
\* are emptied
ExpirableLRU_Purge(c, order) ==
  Res([c EXCEPT !.evictList = <<>>,
                !.buckets = [b \in DOMAIN c.buckets |->
                               [c.buckets[b] EXCEPT !.entries = {}]]],
      [i \in 1..Len(c.evictList) |->
         <<c.evictList[order[i]].Key, c.evictList[order[i]].Value>>],
      Zero, Zero, TRUE, FALSE)

\* Close: close(c.done) unless it is closed already
ExpirableLRU_Close(c) == [c EXCEPT !.done = TRUE]

\* ================================================================ state
VARIABLES
  policy,        \* which cache was constructed: "lru", "sieve", "2q", "arc"
  wrapper,       \* source of the thread-safe Cache: "part_000" or "lru.go"
  cache,         \* Cache.cache / Cache.lru : the wrapped simplelru.LRU
  evictedKeys,   \* Cache.evictedKeys
  evictedVals,   \* Cache.evictedVals
  onEvictedCB,   \* TRUE iff a user callback is registered (Cache.onEvictedCB # nil)
  twoq,          \* the TwoQueueCache
  arc,           \* the ARCCache
  panicked,      \* a call panicked (the goroutine died inside the call)
  last,          \* the last completed call: arguments, results, user callbacks
  was,           \* Len(), Keys(), values and next victims when that call started
  useOrder,      \* LRU only: resident keys by time of last Add/Get, oldest first
  s2,            \* progress through the scenario Add(1),Add(2),Add(1),Add(3)
  s2ev,          \* entries evicted so far in that scenario
  exp,           \* the ExpirableLRU
  now,           \* time.Now()
  ticks,         \* number of times the clock has advanced
  lock,          \* holder of Cache.lock / ExpirableLRU.mu, or Free
  pc,            \* where each goroutine is in its call
  pend,          \* per goroutine: callback invocations its call still has to make
  results,       \* per goroutine: the call it is in and the results it will return
  reentrant,     \* TRUE iff the user callback calls back into the cache (Len)
  calls,         \* number of calls started
  lockLog,       \* entries that left the cache, in critical-section order
  cbLog,         \* user callback invocations, in the order they were made
  ctor,          \* the constructor call being made and its arguments
  built,         \* what that constructor returned: the pointer and the error
  ttlc,          \* a cache whose entries expire: its kind and its fields
  tlast,         \* the last call made on ttlc and what it returned
  elru,          \* an ExpiringCache: backing LRU, expireList and settings
  elast,         \* the last call made on elru, what it saw and what it returned
  ehist,         \* how many keys were used so far; when each resident key was
                 \* last added and last read successfully
  closer,        \* an expirable cache being closed: which type it is, its done
                 \* channel and its cleanup goroutine
  fcache,        \* a FillingCache: size, evictList and every entry allocated
  fproc,         \* each goroutine's place in FillingCache.Get and its locals
  fills,         \* the calls of filler.Fill made so far, in order (their keys)
  rw,            \* the last access to the state of a Cache: by whom, under which lock
  sweeper,       \* the goroutine started by NewExpirableLRU: where it is, its locals
  ts             \* a channel-based LRU: its state, its caller, the last call

seqVars == <<last, was, useOrder, s2, s2ev, twoq, arc>>

concVars == <<exp, now, ticks, lock, pc, pend, results, reentrant, calls, lockLog, cbLog>>

\* variables of the specifications of single components
extVars == <<ctor, built, ttlc, tlast, elru, elast, ehist, closer, fcache, fproc, fills, rw, sweeper, ts>>

vars == <<policy, wrapper, cache, evictedKeys, evictedVals, onEvictedCB,
          twoq, arc, panicked, last, was, useOrder, s2, s2ev,
          exp, now, ticks, lock, pc, pend, results, reentrant, calls, lockLog, cbLog,
          ctor, built, ttlc, tlast, elru, elast, ehist, closer, fcache, fproc, fills, rw, sweeper, ts>>

Procs == 1..NumProcs

\* the unlocked mutex
Free == 0

NoCache == NewLRU(0, FALSE)

NoTwoQ == New2QParams(0, 0, 0)

NoARC == NewARC(0)

NoExp == NewExpirableLRU(0, 0)

NoRet == [op |-> "", k |-> Zero, v |-> Zero, ok |-> FALSE]

\* no goroutine is inside a call
Quiet ==
  /\ now = 0
  /\ ticks = 0
  /\ lock = Free
  /\ pc = [g \in Procs |-> "idle"]
  /\ pend = [g \in Procs |-> <<>>]
  /\ results = [g \in Procs |-> NoRet]
  /\ calls = 0
  /\ lockLog = <<>>
  /\ cbLog = <<>>

NoCtor == [fn |-> "", size |-> 0, recentRatio |-> 0, ghostRatio |-> 0, cb |-> FALSE]

NoBuilt == [done |-> FALSE, isNil |-> TRUE, err |-> FALSE]

\* no constructor call is being followed
NoNew == ctor = NoCtor /\ built = NoBuilt

NoTTLCache == [kind |-> "", c |-> <<>>]

NoTTLCall == [op |-> "", key |-> Zero, v |-> Zero, ok |-> FALSE,
              resident |-> FALSE, expired |-> FALSE]

\* no cache with expiring entries is followed
NoTTL == ttlc = NoTTLCache /\ tlast = NoTTLCall

NoExpiringCall ==
  [op |-> "", key |-> Zero, v |-> Zero, ok |-> FALSE, t |-> 0, resident |-> FALSE,
   wasExpiry |-> 0, written |-> 0, read |-> 0, evictedKey |-> 0 - 1, stale |-> {},
   keys |-> <<>>]

NoTouch == [written |-> 0, read |-> 0]

\* no ExpiringCache is followed
NoExpiring ==
  /\ elru = [lru |-> NoCache, expiration |-> 0, expireList |-> <<>>, expireType |-> ""]
  /\ elast = NoExpiringCall
  /\ ehist = [used |-> 0, touch |-> <<>>, step |-> 0 - 1]

\* no Close is followed
NoClose == closer = [type |-> "", done |-> "", cleanup |-> ""]

\* no FillingCache is followed
NoFilling ==
  /\ fcache = [size |-> 0, evictList |-> <<>>, entries |-> <<>>]
  /\ fproc = <<>>
  /\ fills = <<>>

\* the single-component specifications are not running
\* no access under the RWMutex is followed
NoAccess == [g |-> 0, op |-> "", mode |-> "", wrote |-> FALSE, raced |-> FALSE]

NoRW == rw = NoAccess

\* the goroutine that runs deleteExpired is not followed
NoSweep ==
  [pc |-> "none", tick |-> FALSE, bucketIdx |-> 0, since |-> 0, wake |-> 0, swept |-> {}]

NoSweeper == sweeper = NoSweep

\* no channel-based LRU is followed
IdleCaller == [pc |-> "idle", op |-> "", key |-> Zero]

NoTsCall == [op |-> "", key |-> Zero, ok |-> FALSE, keys |-> <<>>, resident |-> {}]

NoTS ==
  ts = [v |-> "", limit |-> 0, size |-> 0, items |-> <<>>, ents |-> <<>>,
        evictList |-> <<>>, ctl |-> <<>>, caller |-> IdleCaller, dead |-> FALSE,
        last |-> NoTsCall]

NoExt ==
  NoNew /\ NoTTL /\ NoExpiring /\ NoClose /\ NoFilling /\ NoRW /\ NoSweeper /\ NoTS

\* the public methods of whichever cache was constructed
CapOf ==
  IF policy = "2q" THEN twoq.size
  ELSE IF policy = "arc" THEN arc.size ELSE LRU_Cap(cache)

LenOf ==
  IF policy = "2q" THEN TwoQueueCache_Len(twoq)
  ELSE IF policy = "arc" THEN ARCCache_Len(arc) ELSE LRU_Len(cache)

KeysOf ==
  IF policy = "2q" THEN TwoQueueCache_Keys(twoq)
  ELSE IF policy = "arc" THEN ARCCache_Keys(arc) ELSE LRU_Keys(cache)

GetOf(key) ==
  IF policy = "2q" THEN TwoQueueCache_Get(twoq, key)
  ELSE IF policy = "arc" THEN ARCCache_Get(arc, key) ELSE LRU_Get(cache, key)

PeekOf(key) ==
  IF policy = "2q" THEN TwoQueueCache_Peek(twoq, key)
  ELSE IF policy = "arc" THEN ARCCache_Peek(arc, key) ELSE LRU_Peek(cache, key)

AddOf(key, value) ==
  IF policy = "2q" THEN TwoQueueCache_Add(twoq, key, value)
  ELSE IF policy = "arc" THEN ARCCache_Add(arc, key, value)
  ELSE LRU_Add(cache, key, value)

\* for every key, the resident entries the next Add of that key would evict
NextVictims == [key \in Keys |-> AddOf(key, 1).ev]


\* record of a call: its arguments, its results, the user callbacks it made
\* (cb), the resident entries that left the cache in it (left), and whether
\* its key was resident when it started
Call(op, key, val, n, ok, evicted, ret, cb, left, wasRes) ==
  [op |-> op, key |-> key, val |-> val, n |-> n, ok |-> ok, evicted |-> evicted,
   ret |-> ret, cb |-> cb, left |-> left, wasRes |-> wasRes]

NoCall ==
  [op |-> "New", key |-> Zero, val |-> Zero, n |-> 0, ok |-> FALSE,
   evicted |-> FALSE, ret |-> Zero, cb |-> <<>>, left |-> <<>>, wasRes |-> FALSE]

\* what the caller can observe of the cache between two calls
Observed ==
  [len |-> LenOf, keys |-> KeysOf, vals |-> [key \in Keys |-> PeekOf(key).v],
   victims |-> NextVictims]

NoObserved == [len |-> 0, keys |-> <<>>, vals |-> <<>>, victims |-> <<>>]

Init ==
  /\ policy \in {"lru", "sieve", "2q", "arc"}
  /\ wrapper \in {"part_000", "lru.go"}
  /\ (wrapper = "lru.go") => (policy = "lru")
  /\ evictedKeys = <<>>
  /\ evictedVals = <<>>
  /\ onEvictedCB \in BOOLEAN
  /\ (policy \in {"2q", "arc"}) => (~onEvictedCB /\ wrapper = "part_000")
  /\ \E size \in Sizes \ {0} :
       /\ cache = IF policy \in {"lru", "sieve"} THEN NewLRU(size, policy = "sieve")
                  ELSE NoCache
       /\ arc = IF policy = "arc" THEN NewARC(size) ELSE NoARC
       /\ IF policy = "2q"
          THEN \E rr \in Ratios, gr \in Ratios :
                 /\ New2QParamsOk(size, rr, gr)
                 /\ twoq = New2QParams(size, rr, gr)
          ELSE twoq = NoTwoQ
       /\ s2 = IF policy = "lru" /\ size = 2 THEN 0 ELSE -1
  /\ panicked = FALSE
  /\ last = NoCall
  /\ useOrder = <<>>
  /\ s2ev = <<>>
  /\ exp = NoExp
  /\ reentrant = FALSE
  /\ Quiet
  /\ NoExt
  /\ was = Observed

\* ------------------------------------------------- thread-safe Cache
IsCache == policy \in {"lru", "sieve"} /\ ~panicked /\ last = NoCall

Firsts(ev) == [i \in DOMAIN ev |-> ev[i][1]]

Seconds(ev) == [i \in DOMAIN ev |-> ev[i][2]]

\* Cache.onEvicted, installed as the simplelru callback only when a user
\* callback is registered: append every evicted pair to the buffers
onEvicted(ks, vs, ev) ==
  IF onEvictedCB THEN <<ks \o Firsts(ev), vs \o Seconds(ev)>> ELSE <<ks, vs>>

Pairs(ks, vs) == [i \in DOMAIN ks |-> <<ks[i], vs[i]>>]

\* the one-shot operations: take element 0 of the buffers, truncate them
DrainOne(r, flag) ==
  LET b == onEvicted(evictedKeys, evictedVals, r.ev) IN
  IF r.panic THEN [keys |-> b[1], vals |-> b[2], cb |-> <<>>, panic |-> TRUE]
  ELSE IF onEvictedCB /\ flag
  THEN IF Len(b[1]) = 0
       THEN [keys |-> b[1], vals |-> b[2], cb |-> <<>>, panic |-> TRUE]
       ELSE [keys |-> <<>>, vals |-> <<>>, cb |-> <<<<b[1][1], b[2][1]>>>>, panic |-> FALSE]
  ELSE [keys |-> b[1], vals |-> b[2], cb |-> <<>>, panic |-> FALSE]

\* Purge and Resize: hand the whole buffers over and start new ones
DrainAll(r, flag) ==
  LET b == onEvicted(evictedKeys, evictedVals, r.ev) IN
  IF r.panic THEN [keys |-> b[1], vals |-> b[2], cb |-> <<>>, panic |-> TRUE]
  ELSE IF onEvictedCB /\ flag
  THEN [keys |-> <<>>, vals |-> <<>>, cb |-> Pairs(b[1], b[2]), panic |-> FALSE]
  ELSE [keys |-> b[1], vals |-> b[2], cb |-> <<>>, panic |-> FALSE]

\* recency bookkeeping: key `touched` (or Zero) becomes the most recent one,
\* keys that are no longer resident are forgotten
Touch(order, touched, resident) ==
  LET Other(k) == k # touched
      Resident(k) == k \in resident
      o1 == IF touched = Zero THEN order ELSE SelectSeq(order, Other) \o <<touched>>
  IN SelectSeq(o1, Resident)

\* the scenario Add(1), Add(2), Add(1), Add(3) on a new LRU of size 2
S2Keys == <<1, 2, 1, 3>>

S2Next(op, key) ==
  IF s2 >= 0 /\ s2 < Len(S2Keys) /\ op = "Add" /\ key = S2Keys[s2 + 1]
  THEN s2 + 1 ELSE -1

\* common tail of every Cache operation
CacheDone(op, key, val, n, r, d, touched, ok, evicted) ==
  /\ cache' = r.c
  /\ evictedKeys' = d.keys
  /\ evictedVals' = d.vals
  /\ panicked' = d.panic
  /\ was' = was
  /\ last' = Call(op, key, val, n, ok, evicted, r.v, d.cb, r.ev,
                  key \in items(cache))
  /\ useOrder' = IF policy = "lru" THEN Touch(useOrder, touched, items(r.c)) ELSE <<>>
  /\ s2' = S2Next(op, key)
  /\ s2ev' = IF S2Next(op, key) >= 0 THEN s2ev \o r.ev ELSE <<>>
  /\ UNCHANGED <<policy, wrapper, onEvictedCB, twoq, arc>>
  /\ UNCHANGED <<concVars, extVars>>

Add(key, value) ==
  /\ IsCache
  /\ LET r == LRU_Add(cache, key, value)
         d == DrainOne(r, r.ok)
     IN CacheDone("Add", key, value, 0, r, d, key, FALSE, r.ok)

Get(key) ==
  /\ IsCache
  /\ LET r == LRU_Get(cache, key)
         d == DrainOne(r, FALSE)
     IN CacheDone("Get", key, Zero, 0, r, d, IF r.ok THEN key ELSE Zero, r.ok, FALSE)

Contains(key) ==
  /\ IsCache
  /\ LET r == Res(cache, <<>>, Zero, Zero, LRU_Contains(cache, key), FALSE)
         d == DrainOne(r, FALSE)
     IN CacheDone("Contains", key, Zero, 0, r, d, Zero, r.ok, FALSE)

Peek(key) ==
  /\ IsCache
  /\ LET r == LRU_Peek(cache, key)
         d == DrainOne(r, FALSE)
     IN CacheDone("Peek", key, Zero, 0, r, d, Zero, r.ok, FALSE)

ContainsOrAdd(key, value) ==
  /\ IsCache
  /\ IF LRU_Contains(cache, key)
     THEN LET r == Res(cache, <<>>, Zero, Zero, FALSE, FALSE)
              d == DrainOne(r, FALSE)
          IN CacheDone("ContainsOrAdd", key, value, 0, r, d, Zero, TRUE, FALSE)
     ELSE LET r == LRU_Add(cache, key, value)
              d == DrainOne(r, r.ok)
          IN CacheDone("ContainsOrAdd", key, value, 0, r, d, key, FALSE, r.ok)

PeekOrAdd(key, value) ==
  /\ IsCache
  /\ IF LRU_Peek(cache, key).ok
     THEN LET r == Res(cache, <<>>, Zero, LRU_Peek(cache, key).v, FALSE, FALSE)
              d == DrainOne(r, FALSE)
          IN CacheDone("PeekOrAdd", key, value, 0, r, d, Zero, TRUE, FALSE)
     ELSE LET r == LRU_Add(cache, key, value)
              d == DrainOne(r, r.ok)
          IN CacheDone("PeekOrAdd", key, value, 0, r, d, key, FALSE, r.ok)

Remove(key) ==
  /\ IsCache
  /\ wrapper = "part_000"
  /\ LET r == LRU_Remove(cache, key)
         d == DrainOne(r, r.ok)
     IN CacheDone("Remove", key, Zero, 0, r, d, Zero, r.ok, FALSE)

\* Remove of the Cache in lru.go: the drained pair is handed to c.onEvicted,
\* which appends it to the buffers again, and the user callback is not called
RemoveLruGo(key) ==
  /\ IsCache
  /\ wrapper = "lru.go"
  /\ LET r == LRU_Remove(cache, key)
         d == DrainOne(r, r.ok)
     IN IF onEvictedCB /\ r.ok /\ ~d.panic
        THEN CacheDone("Remove", key, Zero, 0, r,
                       [d EXCEPT !.keys = d.keys \o Firsts(d.cb),
                                 !.vals = d.vals \o Seconds(d.cb),
                                 !.cb = <<>>],
                       Zero, r.ok, FALSE)
        ELSE CacheDone("Remove", key, Zero, 0, r, d, Zero, r.ok, FALSE)

Resize(size) ==
  /\ IsCache
  /\ LET r == LRU_Resize(cache, size)
         d == DrainAll(r, r.k > 0)
     IN CacheDone("Resize", Zero, Zero, size, r, d, Zero, FALSE, r.k > 0)

RemoveOldest ==
  /\ IsCache
  /\ LET r == LRU_RemoveOldest(cache)
         d == DrainOne(r, r.ok)
     IN CacheDone("RemoveOldest", r.k, Zero, 0, r, d, Zero, r.ok, FALSE)

GetOldest ==
  /\ IsCache
  /\ LET r == LRU_GetOldest(cache)
         d == DrainOne(r, FALSE)
     IN CacheDone("GetOldest", r.k, Zero, 0, r, d, Zero, r.ok, FALSE)

Purge ==
  /\ IsCache
  /\ \E order \in Orders(DOMAIN cache.evictList) :
       LET r == LRU_Purge(cache, order)
           b == onEvicted(evictedKeys, evictedVals, r.ev)
           d == DrainAll(r, Len(b[1]) > 0)
       IN CacheDone("Purge", Zero, Zero, 0, r, d, Zero, FALSE, FALSE)

\* ------------------------------------------------------ TwoQueueCache
TwoQDone(op, key, val, r, resident) ==
  /\ twoq' = r.c
  /\ was' = was
  /\ last' = Call(op, key, val, 0, r.ok, r.ok /\ op = "Add", r.v, <<>>, r.ev,
                  resident)
  /\ UNCHANGED <<policy, wrapper, cache, evictedKeys, evictedVals, onEvictedCB,
                 arc, panicked, useOrder, s2, s2ev>>
  /\ UNCHANGED <<concVars, extVars>>

TwoQueueGet(key) ==
  /\ policy = "2q" /\ last = NoCall
  /\ TwoQDone("Get", key, Zero, TwoQueueCache_Get(twoq, key),
              TwoQueueCache_Contains(twoq, key))

TwoQueueAdd(key, value) ==
  /\ policy = "2q" /\ last = NoCall
  /\ TwoQDone("Add", key, value, TwoQueueCache_Add(twoq, key, value),
              TwoQueueCache_Contains(twoq, key))

TwoQueueRemove(key) ==
  /\ policy = "2q" /\ last = NoCall
  /\ TwoQDone("Remove", key, Zero, TwoQueueCache_Remove(twoq, key),
              TwoQueueCache_Contains(twoq, key))

TwoQueuePurge ==
  /\ policy = "2q" /\ last = NoCall
  /\ TwoQDone("Purge", Zero, Zero,
              Res(TwoQueueCache_Purge(twoq), <<>>, Zero, Zero, FALSE, FALSE), FALSE)

TwoQueueContains(key) ==
  /\ policy = "2q" /\ last = NoCall
  /\ TwoQDone("Contains", key, Zero,
              Res(twoq, <<>>, Zero, Zero, TwoQueueCache_Contains(twoq, key), FALSE),
              TwoQueueCache_Contains(twoq, key))

TwoQueuePeek(key) ==
  /\ policy = "2q" /\ last = NoCall
  /\ TwoQDone("Peek", key, Zero,
              [TwoQueueCache_Peek(twoq, key) EXCEPT !.c = twoq],
              TwoQueueCache_Contains(twoq, key))

\* ----------------------------------------------------------- ARCCache
ARCDone(op, key, val, r, resident) ==
  /\ arc' = r.c
  /\ was' = was
  /\ last' = Call(op, key, val, 0, r.ok, r.ok /\ op = "Add", r.v, <<>>, r.ev,
                  resident)
  /\ UNCHANGED <<policy, wrapper, cache, evictedKeys, evictedVals, onEvictedCB,
                 twoq, panicked, useOrder, s2, s2ev>>
  /\ UNCHANGED <<concVars, extVars>>

ARCGet(key) ==
  /\ policy = "arc" /\ last = NoCall
  /\ ARCDone("Get", key, Zero, ARCCache_Get(arc, key), ARCCache_Contains(arc, key))

ARCAdd(key, value) ==
  /\ policy = "arc" /\ last = NoCall
  /\ ARCDone("Add", key, value, ARCCache_Add(arc, key, value),
             ARCCache_Contains(arc, key))

ARCRemove(key) ==
  /\ policy = "arc" /\ last = NoCall
  /\ ARCDone("Remove", key, Zero, ARCCache_Remove(arc, key),
             ARCCache_Contains(arc, key))

ARCPurge ==
  /\ policy = "arc" /\ last = NoCall
  /\ ARCDone("Purge", Zero, Zero,
             Res(ARCCache_Purge(arc), <<>>, Zero, Zero, FALSE, FALSE), FALSE)

ARCContains(key) ==
  /\ policy = "arc" /\ last = NoCall
  /\ ARCDone("Contains", key, Zero,
             Res(arc, <<>>, Zero, Zero, ARCCache_Contains(arc, key), FALSE),
             ARCCache_Contains(arc, key))

ARCPeek(key) ==
  /\ policy = "arc" /\ last = NoCall
  /\ ARCDone("Peek", key, Zero, [ARCCache_Peek(arc, key) EXCEPT !.c = arc],
             ARCCache_Contains(arc, key))

\* ------------------------------------------------------- specification
\* the caller receives the results of the call recorded in `last`; the next
\* call starts after that
Return ==
  /\ last # NoCall
  /\ last' = NoCall
  /\ was' = Observed
  /\ UNCHANGED <<policy, wrapper, cache, evictedKeys, evictedVals, onEvictedCB,
                 twoq, arc, panicked, useOrder, s2, s2ev>>
  /\ UNCHANGED <<concVars, extVars>>

Next ==
  \/ \E key \in Keys, value \in Vals : Add(key, value)
  \/ \E key \in Keys : Get(key)
  \/ \E key \in Keys : Contains(key)
  \/ \E key \in Keys : Peek(key)
  \/ \E key \in Keys, value \in Vals : ContainsOrAdd(key, value)
  \/ \E key \in Keys, value \in Vals : PeekOrAdd(key, value)
  \/ \E key \in Keys : Remove(key)
  \/ \E key \in Keys : RemoveLruGo(key)
  \/ \E size \in Sizes : Resize(size)
  \/ RemoveOldest
  \/ GetOldest
  \/ Purge
  \/ \E key \in Keys : TwoQueueGet(key)
  \/ \E key \in Keys, value \in Vals : TwoQueueAdd(key, value)
  \/ \E key \in Keys : TwoQueueRemove(key)
  \/ TwoQueuePurge
  \/ \E key \in Keys : TwoQueueContains(key)
  \/ \E key \in Keys : TwoQueuePeek(key)
  \/ \E key \in Keys : ARCGet(key)
  \/ \E key \in Keys, value \in Vals : ARCAdd(key, value)
  \/ \E key \in Keys : ARCRemove(key)
  \/ ARCPurge
  \/ \E key \in Keys : ARCContains(key)
  \/ \E key \in Keys : ARCPeek(key)
  \/ Return

Spec == Init /\ [][Next]_vars

\* ------------------------------------ goroutines calling into one Cache
InitConc ==
  /\ policy = "lru"
  /\ wrapper = "part_000"
  /\ evictedKeys = <<>>
  /\ evictedVals = <<>>
  /\ onEvictedCB \in BOOLEAN
  /\ \E size \in Sizes \ {0} : cache = NewLRU(size, FALSE)
  /\ twoq = NoTwoQ
  /\ arc = NoARC
  /\ exp = NoExp
  /\ panicked = FALSE
  /\ last = NoCall
  /\ was = NoObserved
  /\ useOrder = <<>>
  /\ s2 = -1
  /\ s2ev = <<>>
  /\ reentrant \in BOOLEAN
  /\ Quiet
  /\ NoExt

\* goroutine g can start a call and acquire the lock
CanCall(g) == pc[g] = "idle" /\ lock = Free /\ calls < MaxCalls /\ ~panicked

Tag(op, ev) == [i \in DOMAIN ev |-> <<op, ev[i][1], ev[i][2]>>]

\* c.lock.Lock() and the critical section of a Cache method, run by g
CacheLocked(g, op, r, d) ==
  /\ lock' = g
  /\ cache' = r.c
  /\ evictedKeys' = d.keys
  /\ evictedVals' = d.vals
  /\ panicked' = d.panic
  /\ pend' = [pend EXCEPT ![g] = Tag(op, d.cb)]
  /\ lockLog' = lockLog \o Tag(op, r.ev)
  /\ pc' = [pc EXCEPT ![g] = "locked"]
  /\ results' = [results EXCEPT ![g] = [op |-> op, k |-> r.k, v |-> r.v, ok |-> r.ok]]
  /\ calls' = calls + 1
  /\ UNCHANGED <<policy, wrapper, onEvictedCB, exp, now, ticks, reentrant, cbLog>>
  /\ UNCHANGED <<seqVars, extVars>>

AddLocked(g, key, value) ==
  /\ policy = "lru" /\ CanCall(g)
  /\ LET r == LRU_Add(cache, key, value)
     IN CacheLocked(g, "Add", r, DrainOne(r, r.ok))

GetLocked(g, key) ==
  /\ policy = "lru" /\ CanCall(g)
  /\ LET r == LRU_Get(cache, key)
     IN CacheLocked(g, "Get", r, DrainOne(r, FALSE))

RemoveLocked(g, key) ==
  /\ policy = "lru" /\ CanCall(g)
  /\ LET r == LRU_Remove(cache, key)
     IN CacheLocked(g, "Remove", r, DrainOne(r, r.ok))

RemoveOldestLocked(g) ==
  /\ policy = "lru" /\ CanCall(g)
  /\ LET r == LRU_RemoveOldest(cache)
     IN CacheLocked(g, "RemoveOldest", r, DrainOne(r, r.ok))

PurgeLocked(g) ==
  /\ policy = "lru" /\ CanCall(g)
  /\ \E order \in Orders(DOMAIN cache.evictList) :
       LET r == LRU_Purge(cache, order)
           b == onEvicted(evictedKeys, evictedVals, r.ev)
       IN CacheLocked(g, "Purge", r, DrainAll(r, Len(b[1]) > 0))

\* c.lock.Unlock()
Unlock(g) ==
  /\ policy = "lru" /\ pc[g] = "locked" /\ lock = g /\ ~panicked
  /\ lock' = Free
  /\ pc' = [pc EXCEPT ![g] = IF pend[g] = <<>> THEN "idle" ELSE "callback"]
  /\ results' = [results EXCEPT ![g] = IF pend[g] = <<>> THEN NoRet ELSE @]
  /\ UNCHANGED <<policy, wrapper, cache, evictedKeys, evictedVals, onEvictedCB,
                 panicked, exp, now, ticks, pend, reentrant, calls, lockLog, cbLog>>
  /\ UNCHANGED <<seqVars, extVars>>

\* c.onEvictedCB(k, v) after the unlock; a reentrant callback calls c.Len(),
\* which takes the lock and releases it
Callback(g) ==
  /\ policy = "lru" /\ pc[g] = "callback"
  /\ reentrant => lock = Free
  /\ cbLog' = Append(cbLog, Head(pend[g]))
  /\ pend' = [pend EXCEPT ![g] = Tail(pend[g])]
  /\ pc' = [pc EXCEPT ![g] = IF Len(pend[g]) = 1 THEN "idle" ELSE "callback"]
  /\ results' = [results EXCEPT ![g] = IF Len(pend[g]) = 1 THEN NoRet ELSE @]
  /\ UNCHANGED <<policy, wrapper, cache, evictedKeys, evictedVals, onEvictedCB,
                 panicked, exp, now, ticks, lock, reentrant, calls, lockLog>>
  /\ UNCHANGED <<seqVars, extVars>>

NextConc ==
  \/ \E g \in Procs, key \in Keys, value \in Vals : AddLocked(g, key, value)
  \/ \E g \in Procs, key \in Keys : GetLocked(g, key)
  \/ \E g \in Procs, key \in Keys : RemoveLocked(g, key)
  \/ \E g \in Procs : RemoveOldestLocked(g)
  \/ \E g \in Procs : PurgeLocked(g)
  \/ \E g \in Procs : Unlock(g)
  \/ \E g \in Procs : Callback(g)

SpecConc == InitConc /\ [][NextConc]_vars

\* ---------------------------- goroutines calling into one ExpirableLRU
\* constructed with ttl 0: expiring is off and no sweeper goroutine runs
InitExp ==
  /\ policy = "expirable"
  /\ wrapper = "part_000"
  /\ evictedKeys = <<>>
  /\ evictedVals = <<>>
  /\ onEvictedCB \in BOOLEAN
  /\ \E size \in Sizes : exp = NewExpirableLRU(size, 0)
  /\ cache = NoCache
  /\ twoq = NoTwoQ
  /\ arc = NoARC
  /\ panicked = FALSE
  /\ last = NoCall
  /\ was = NoObserved
  /\ useOrder = <<>>
  /\ s2 = -1
  /\ s2ev = <<>>
  /\ reentrant \in BOOLEAN
  /\ Quiet
  /\ NoExt

\* c.mu.Lock() and the body of an ExpirableLRU method up to its first
\* onEvict call, run by g; the deferred Unlock has not run yet
ExpLocked(g, op, r) ==
  /\ lock' = g
  /\ exp' = r.c
  /\ pend' = [pend EXCEPT ![g] = IF onEvictedCB THEN Tag(op, r.ev) ELSE <<>>]
  /\ lockLog' = lockLog \o Tag(op, r.ev)
  /\ pc' = [pc EXCEPT ![g] = IF onEvictedCB /\ r.ev # <<>> THEN "callback" ELSE "locked"]
  /\ results' = [results EXCEPT ![g] = [op |-> op, k |-> r.k, v |-> r.v, ok |-> r.ok]]
  /\ calls' = calls + 1
  /\ UNCHANGED <<policy, wrapper, cache, evictedKeys, evictedVals, onEvictedCB,
                 panicked, now, ticks, reentrant, cbLog>>
  /\ UNCHANGED <<seqVars, extVars>>

ExpAdd(g, key, value) ==
  /\ policy = "expirable" /\ CanCall(g)
  /\ ExpLocked(g, "Add", ExpirableLRU_Add(exp, key, value, now))

ExpGet(g, key) ==
  /\ policy = "expirable" /\ CanCall(g)
  /\ ExpLocked(g, "Get", ExpirableLRU_Get(exp, key, now))

ExpPeek(g, key) ==
  /\ policy = "expirable" /\ CanCall(g)
  /\ ExpLocked(g, "Peek", ExpirableLRU_Peek(exp, key, now))

ExpRemove(g, key) ==
  /\ policy = "expirable" /\ CanCall(g)
  /\ ExpLocked(g, "Remove", ExpirableLRU_Remove(exp, key))

ExpRemoveOldest(g) ==
  /\ policy = "expirable" /\ CanCall(g)
  /\ ExpLocked(g, "RemoveOldest", ExpirableLRU_RemoveOldest(exp))

ExpResize(g, size) ==
  /\ policy = "expirable" /\ CanCall(g)
  /\ ExpLocked(g, "Resize", ExpirableLRU_Resize(exp, size))

ExpPurge(g) ==
  /\ policy = "expirable" /\ CanCall(g)
  /\ \E order \in Orders(DOMAIN exp.evictList) :
       ExpLocked(g, "Purge", ExpirableLRU_Purge(exp, order))

ExpClose(g) ==
  /\ policy = "expirable" /\ CanCall(g)
  /\ ExpLocked(g, "Close", Res(ExpirableLRU_Close(exp), <<>>, Zero, Zero, TRUE, FALSE))

\* c.onEvict(k, v) inside removeElement or Purge; a reentrant callback calls
\* c.Len(), which takes the mutex and releases it
ExpCallback(g) ==
  /\ policy = "expirable" /\ pc[g] = "callback"
  /\ reentrant => lock = Free
  /\ cbLog' = Append(cbLog, Head(pend[g]))
  /\ pend' = [pend EXCEPT ![g] = Tail(pend[g])]
  /\ pc' = [pc EXCEPT ![g] = IF Len(pend[g]) = 1 THEN "locked" ELSE "callback"]
  /\ UNCHANGED <<policy, wrapper, cache, evictedKeys, evictedVals, onEvictedCB,
                 panicked, exp, now, ticks, lock, results, reentrant, calls, lockLog>>
  /\ UNCHANGED <<seqVars, extVars>>

\* the deferred c.mu.Unlock()
ExpUnlock(g) ==
  /\ policy = "expirable" /\ pc[g] = "locked" /\ lock = g
  /\ lock' = Free
  /\ pc' = [pc EXCEPT ![g] = "idle"]
  /\ results' = [results EXCEPT ![g] = NoRet]
  /\ UNCHANGED <<policy, wrapper, cache, evictedKeys, evictedVals, onEvictedCB,
                 panicked, exp, now, ticks, pend, reentrant, calls, lockLog, cbLog>>
  /\ UNCHANGED <<seqVars, extVars>>

\* the clock advances by one second
Tick ==
  /\ policy = "expirable" /\ ticks < MaxTicks
  /\ now' = now + 1
  /\ ticks' = ticks + 1
  /\ UNCHANGED <<policy, wrapper, cache, evictedKeys, evictedVals, onEvictedCB,
                 panicked, exp, lock, pc, pend, results, reentrant, calls, lockLog, cbLog>>
  /\ UNCHANGED <<seqVars, extVars>>

NextExp ==
  \/ \E g \in Procs, key \in Keys, value \in Vals : ExpAdd(g, key, value)
  \/ \E g \in Procs, key \in Keys : ExpGet(g, key)
  \/ \E g \in Procs, key \in Keys : ExpPeek(g, key)
  \/ \E g \in Procs, key \in Keys : ExpRemove(g, key)
  \/ \E g \in Procs : ExpRemoveOldest(g)
  \/ \E g \in Procs, size \in Sizes : ExpResize(g, size)
  \/ \E g \in Procs : ExpPurge(g)
  \/ \E g \in Procs : ExpClose(g)
  \/ \E g \in Procs : ExpCallback(g)
  \/ \E g \in Procs : ExpUnlock(g)
  \/ Tick

SpecExp == InitExp /\ [][NextExp]_vars

\* ------------------------------------------------------ constructors
\* what a constructor hands back: the pointer (nil or not) and the error
Built(isNil, err) == [done |-> TRUE, isNil |-> isNil, err |-> err]

\* simplelru.NewLRU and simplelru.NewSieve: nil and an error unless size > 0
simplelru_NewLRU(size) == IF size <= 0 THEN Built(TRUE, TRUE) ELSE Built(FALSE, FALSE)

\* NewWithEvict and NewSieveWithEvict of the thread-safe Cache: c is
\* allocated first, then c.cache, err = simplelru.NewLRU(...) and both named
\* results are returned as they are
NewWithEvict(size) == Built(FALSE, simplelru_NewLRU(size).err)

\* New2QParams: nil and an error for a bad size, a bad ratio or a
\* sub-cache that simplelru.NewLRU refuses
New2QParams_result(size, recentRatio, ghostRatio) ==
  IF size <= 0 THEN Built(TRUE, TRUE)
  ELSE IF recentRatio < 0 \/ recentRatio > 100 THEN Built(TRUE, TRUE)
  ELSE IF ghostRatio < 0 \/ ghostRatio > 100 THEN Built(TRUE, TRUE)
  ELSE IF simplelru_NewLRU(size).err THEN Built(TRUE, TRUE)
  ELSE IF simplelru_NewLRU(SubSize(size, ghostRatio)).err THEN Built(TRUE, TRUE)
  ELSE Built(FALSE, FALSE)

\* NewARC: nil and an error when simplelru.NewLRU refuses size
NewARC_result(size) ==
  IF simplelru_NewLRU(size).err THEN Built(TRUE, TRUE) ELSE Built(FALSE, FALSE)

Ctors == {"simplelru.NewLRU", "simplelru.NewSieve", "NewWithEvict",
          "NewSieveWithEvict", "lru.go:NewWithEvict", "New2QParams", "NewARC"}

\* sizes and ratios (percent) a caller may pass, valid or not
CtorSizes == (0 - 1)..MaxSize

CtorRatios == Ratios \cup {0 - 25, 125}

\* the result of the constructor call ctor
Constructed(c) ==
  IF c.fn \in {"simplelru.NewLRU", "simplelru.NewSieve"} THEN simplelru_NewLRU(c.size)
  ELSE IF c.fn \in {"NewWithEvict", "NewSieveWithEvict", "lru.go:NewWithEvict"}
  THEN NewWithEvict(c.size)
  ELSE IF c.fn = "New2QParams"
  THEN New2QParams_result(c.size, c.recentRatio, c.ghostRatio)
  ELSE NewARC_result(c.size)

InitNew ==
  /\ policy = ""
  /\ wrapper = "part_000"
  /\ evictedKeys = <<>>
  /\ evictedVals = <<>>
  /\ onEvictedCB = FALSE
  /\ exp = NoExp
  /\ cache = NoCache
  /\ twoq = NoTwoQ
  /\ arc = NoARC
  /\ panicked = FALSE
  /\ last = NoCall
  /\ was = NoObserved
  /\ useOrder = <<>>
  /\ s2 = -1
  /\ s2ev = <<>>
  /\ reentrant = FALSE
  /\ Quiet
  /\ \E fn \in Ctors, size \in CtorSizes, rr \in CtorRatios, gr \in CtorRatios,
        cb \in BOOLEAN :
       /\ (fn # "New2QParams") => (rr = 0 /\ gr = 0)
       /\ (fn \in {"New2QParams", "NewARC"}) => ~cb
       /\ ctor = [fn |-> fn, size |-> size, recentRatio |-> rr, ghostRatio |-> gr,
                  cb |-> cb]
  /\ built = NoBuilt
  /\ NoTTL
  /\ NoExpiring
  /\ NoClose
  /\ NoFilling
  /\ NoRW
  /\ NoSweeper
  /\ NoTS

\* the constructor runs: it returns its two results and, when it succeeds,
\* the cache it built exists
Construct ==
  /\ ~built.done
  /\ built' = Constructed(ctor)
  /\ policy' = IF ctor.fn \in {"simplelru.NewLRU", "NewWithEvict", "lru.go:NewWithEvict"}
               THEN "lru"
               ELSE IF ctor.fn \in {"simplelru.NewSieve", "NewSieveWithEvict"} THEN "sieve"
               ELSE IF ctor.fn = "New2QParams" THEN "2q" ELSE "arc"
  /\ wrapper' = IF ctor.fn = "lru.go:NewWithEvict" THEN "lru.go" ELSE "part_000"
  /\ onEvictedCB' = ctor.cb
  /\ cache' = IF policy' \in {"lru", "sieve"} /\ ~built'.err
              THEN NewLRU(ctor.size, policy' = "sieve") ELSE NoCache
  /\ twoq' = IF policy' = "2q" /\ ~built'.err
             THEN New2QParams(ctor.size, ctor.recentRatio, ctor.ghostRatio) ELSE NoTwoQ
  /\ arc' = IF policy' = "arc" /\ ~built'.err THEN NewARC(ctor.size) ELSE NoARC
  /\ UNCHANGED <<evictedKeys, evictedVals, panicked, ctor, last, was, useOrder,
                 s2, s2ev>>
  /\ UNCHANGED concVars
  /\ UNCHANGED <<ttlc, tlast, elru, elast, ehist, closer, fcache, fproc, fills, rw, sweeper, ts>>

NextNew == Construct

SpecNew == InitNew /\ [][NextNew]_vars

\* ------------------------------------- caches whose entries expire
\* ttl values (seconds) the expiring caches are built with
TTLs == 1..MaxTTL

\* CacheWithTTL embeds a simplelru.LRU whose values are cacheValue structs
NewTTLWithEvict(size, ttl) == [LRU |-> NewLRU(size, FALSE), TTL |-> ttl]

cacheValue(value, t) == [value |-> value, lastAccessTime |-> t]

\* time.Now().After(val.lastAccessTime.Add(c.TTL))
CacheWithTTL_stale(c, val, t) == t > val.lastAccessTime + c.TTL

CacheWithTTL_Add(c, key, value, t) ==
  LET add(r) == Res([c EXCEPT !.LRU = r.c], r.ev, Zero, Zero, r.ok, FALSE)
  IN add(LRU_Add(c.LRU, key, cacheValue(value, t)))

\* Get removes the entry it finds expired and returns nil, false
CacheWithTTL_Get(c, key, t) ==
  LET get(r) ==
        IF ~r.ok THEN Res(c, <<>>, Zero, Zero, FALSE, FALSE)
        ELSE IF CacheWithTTL_stale(c, r.v, t)
        THEN Res([c EXCEPT !.LRU = LRU_Remove(r.c, key).c], <<>>, Zero, Zero, FALSE, FALSE)
        ELSE Res([c EXCEPT !.LRU = r.c], <<>>, Zero, r.v.value, TRUE, FALSE)
  IN get(LRU_Get(c.LRU, key))

\* Peek unwraps the value it finds; it does not look at lastAccessTime
CacheWithTTL_Peek(c, key) ==
  LET peek(r) == IF r.ok THEN Res(c, <<>>, Zero, r.v.value, TRUE, FALSE)
                 ELSE Res(c, <<>>, Zero, Zero, FALSE, FALSE)
  IN peek(LRU_Peek(c.LRU, key))

CacheWithTTL_Remove(c, key) ==
  LET remove(r) == Res([c EXCEPT !.LRU = r.c], r.ev, Zero, Zero, r.ok, FALSE)
  IN remove(LRU_Remove(c.LRU, key))

\* one round of the loop in cleanup, for one key of Keys(): LRU.Get, then
\* Remove if the entry is expired
CacheWithTTL_cleanup(c, key, t) ==
  LET sweep(r) ==
        IF r.ok /\ CacheWithTTL_stale(c, r.v, t)
        THEN Res([c EXCEPT !.LRU = LRU_Remove(r.c, key).c], <<>>, Zero, Zero, TRUE, FALSE)
        ELSE Res([c EXCEPT !.LRU = r.c], <<>>, Zero, Zero, FALSE, FALSE)
  IN sweep(LRU_Get(c.LRU, key))

\* deleteExpired runs once the newest entry of the next bucket has expired
\* (it sleeps until then): every entry of that bucket is removed
RECURSIVE ExpirableLRU_removeAll(_, _)
ExpirableLRU_removeAll(c, ks) ==
  IF ks = {} THEN c
  ELSE LET key == CHOOSE x \in ks : TRUE
       IN ExpirableLRU_removeAll(
            ExpirableLRU_removeElement(c, IndexOf(c.evictList, key)).c, ks \ {key})

ExpirableLRU_deleteExpired(c) ==
  LET swept(c1) == [c1 EXCEPT !.nextCleanupBucket = (c.nextCleanupBucket + 1) % numBuckets]
  IN swept(ExpirableLRU_removeAll(c, c.buckets[c.nextCleanupBucket].entries))

\* the ticker of the cleanup goroutine fires n times in a row at time t:
\* deleteExpired runs bucket after bucket until it has to sleep
RECURSIVE ExpirableLRU_ticker(_, _, _)
ExpirableLRU_ticker(c, t, n) ==
  IF n = 0 \/ t < c.buckets[c.nextCleanupBucket].newestEntry THEN c
  ELSE ExpirableLRU_ticker(ExpirableLRU_deleteExpired(c), t, n - 1)

\* the entry of key is in the cache and its expiry time has passed
TTLExpired(key) ==
  IF ttlc.kind = "ExpirableLRU"
  THEN /\ key \in items(ttlc.c)
       /\ now > ttlc.c.evictList[IndexOf(ttlc.c.evictList, key)].expiresAt
  ELSE /\ key \in items(ttlc.c.LRU)
       /\ CacheWithTTL_stale(ttlc.c, LRU_Peek(ttlc.c.LRU, key).v, now)

TTLResident(key) ==
  IF ttlc.kind = "ExpirableLRU" THEN key \in items(ttlc.c) ELSE key \in items(ttlc.c.LRU)

\* the value the caller stores under key (each key has one value, as in
\* the tests)
ValueOf(key) == key

InitTTL ==
  /\ policy = ""
  /\ wrapper = "part_000"
  /\ evictedKeys = <<>>
  /\ evictedVals = <<>>
  /\ onEvictedCB = FALSE
  /\ exp = NoExp
  /\ cache = NoCache
  /\ twoq = NoTwoQ
  /\ arc = NoARC
  /\ panicked = FALSE
  /\ last = NoCall
  /\ was = NoObserved
  /\ useOrder = <<>>
  /\ s2 = -1
  /\ s2ev = <<>>
  /\ reentrant = FALSE
  /\ Quiet
  /\ NoNew
  /\ NoExpiring
  /\ NoClose
  /\ NoFilling
  /\ NoRW
  /\ NoSweeper
  /\ NoTS
  /\ \E ttl \in TTLs :
       \/ \E size \in Sizes : ttlc = [kind |-> "ExpirableLRU", c |-> NewExpirableLRU(size, ttl)]
       \/ \E size \in Sizes \ {0} :
            ttlc = [kind |-> "CacheWithTTL", c |-> NewTTLWithEvict(size, ttl)]
  /\ tlast = NoTTLCall

\* a call on ttlc returns r
TTLDone(op, key, r) ==
  /\ ttlc' = [ttlc EXCEPT !.c = r.c]
  /\ tlast' = [op |-> op, key |-> key, v |-> r.v, ok |-> r.ok,
               resident |-> TTLResident(key), expired |-> TTLExpired(key)]
  /\ UNCHANGED <<policy, wrapper, cache, evictedKeys, evictedVals, onEvictedCB, panicked,
                 ctor, built, elru, elast, ehist, closer, fcache, fproc, fills, rw, sweeper, ts>>
  /\ UNCHANGED <<seqVars, concVars>>

TTLAdd(key, value) ==
  TTLDone("Add", key, IF ttlc.kind = "ExpirableLRU"
                      THEN ExpirableLRU_Add(ttlc.c, key, value, now)
                      ELSE CacheWithTTL_Add(ttlc.c, key, value, now))

TTLGet(key) ==
  TTLDone("Get", key, IF ttlc.kind = "ExpirableLRU"
                      THEN ExpirableLRU_Get(ttlc.c, key, now)
                      ELSE CacheWithTTL_Get(ttlc.c, key, now))

TTLPeek(key) ==
  TTLDone("Peek", key, IF ttlc.kind = "ExpirableLRU"
                       THEN ExpirableLRU_Peek(ttlc.c, key, now)
                       ELSE CacheWithTTL_Peek(ttlc.c, key))

TTLRemove(key) ==
  TTLDone("Remove", key, IF ttlc.kind = "ExpirableLRU"
                         THEN ExpirableLRU_Remove(ttlc.c, key)
                         ELSE CacheWithTTL_Remove(ttlc.c, key))

\* the background goroutine of ttlc runs between two calls: the ticks of
\* ExpirableLRU's ticker (one every ttl / numBuckets) up to the next sleep,
\* or one round of CacheWithTTL's cleanup loop
TTLSweep ==
  /\ IF ttlc.kind = "ExpirableLRU"
     THEN ttlc' = [ttlc EXCEPT !.c = ExpirableLRU_ticker(ttlc.c, now, numBuckets)]
     ELSE \E key \in items(ttlc.c.LRU) :
            ttlc' = [ttlc EXCEPT !.c = CacheWithTTL_cleanup(ttlc.c, key, now).c]
  /\ UNCHANGED <<policy, wrapper, cache, evictedKeys, evictedVals, onEvictedCB, panicked,
                 ctor, built, tlast, elru, elast, ehist, closer, fcache, fproc, fills, rw, sweeper, ts>>
  /\ UNCHANGED <<seqVars, concVars>>

\* the clock of the expiring caches advances by one second
Advance ==
  /\ now < MaxTime
  /\ now' = now + 1
  /\ UNCHANGED <<policy, wrapper, cache, evictedKeys, evictedVals, onEvictedCB, panicked,
                 exp, ticks, lock, pc, pend, results, reentrant, calls, lockLog, cbLog>>
  /\ UNCHANGED <<seqVars, extVars>>

NextTTL ==
  \/ \E key \in Keys : TTLAdd(key, ValueOf(key))
  \/ \E key \in Keys : TTLGet(key)
  \/ \E key \in Keys : TTLPeek(key)
  \/ \E key \in Keys : TTLRemove(key)
  \/ TTLSweep
  \/ Advance

SpecTTL == InitTTL /\ [][NextTTL]_vars

\* ------------------------------------------------------- LruWithTTL
\* LruWithTTL embeds a Cache and keeps the set of the keys for which a cleanup
\* goroutine is scheduled; timers holds the goroutines started by AddWithTTL:
\* each sleeps until wake, then runs its deferred calls, clearSchedule(key)
\* first and Cache.Remove(key) after it
NewTTL(size) == [Cache |-> NewLRU(size, FALSE), schedule |-> {}, timers |-> {}]

\* the keys and the ttl values of the calls
TimedKeys == 1..MaxTimedKey

Durations == {1, MaxTime}

LruWithTTL_AddWithTTL(c, key, value, ttl, t) ==
  LET add(r) ==
        Res(IF key \in c.schedule THEN [c EXCEPT !.Cache = r.c]
            ELSE [c EXCEPT !.Cache = r.c, !.schedule = c.schedule \cup {key},
                           !.timers = c.timers \cup
                                        {[key |-> key, wake |-> t + ttl, pc |-> "sleep"]}],
            r.ev, Zero, Zero, r.ok, FALSE)
  IN add(LRU_Add(c.Cache, key, value))

\* time.Sleep(ttl) returns and the deferred clearSchedule(key) runs
LruWithTTL_clearSchedule(c, g) ==
  [c EXCEPT !.schedule = c.schedule \ {g.key},
            !.timers = (c.timers \ {g}) \cup {[g EXCEPT !.pc = "remove"]}]

\* the deferred this.Cache.Remove(key) runs and the goroutine ends
LruWithTTL_Remove(c, g) ==
  LET remove(r) == Res([c EXCEPT !.Cache = r.c, !.timers = c.timers \ {g}],
                       r.ev, Zero, Zero, r.ok, FALSE)
  IN remove(LRU_Remove(c.Cache, g.key))

IsLruWithTTL == ttlc.kind = "LruWithTTL"

\* tlast.due[key] is when the ttl of the most recent AddWithTTL of key ends;
\* tlast.early tells that a step of a cleanup goroutine was made before that
InitLruTTL ==
  /\ policy = ""
  /\ wrapper = "part_000"
  /\ evictedKeys = <<>>
  /\ evictedVals = <<>>
  /\ onEvictedCB = FALSE
  /\ exp = NoExp
  /\ cache = NoCache
  /\ twoq = NoTwoQ
  /\ arc = NoARC
  /\ panicked = FALSE
  /\ last = NoCall
  /\ was = NoObserved
  /\ useOrder = <<>>
  /\ s2 = -1
  /\ s2ev = <<>>
  /\ reentrant = FALSE
  /\ Quiet
  /\ NoNew
  /\ NoExpiring
  /\ NoClose
  /\ NoFilling
  /\ NoRW
  /\ NoSweeper
  /\ NoTS
  /\ \E size \in Sizes \ {0} : ttlc = [kind |-> "LruWithTTL", c |-> NewTTL(size)]
  /\ tlast = [op |-> "", key |-> Zero, early |-> FALSE, ok |-> FALSE, resident |-> FALSE,
              due |-> [k \in TimedKeys |-> 0]]

LruTTLFrame ==
  /\ UNCHANGED <<policy, wrapper, cache, evictedKeys, evictedVals, onEvictedCB, panicked,
                 ctor, built, elru, elast, ehist, closer, fcache, fproc, fills, rw, sweeper, ts>>
  /\ UNCHANGED <<seqVars, concVars>>

LruTTLAddWithTTL(key, value, ttl) ==
  /\ IsLruWithTTL
  /\ LET r == LruWithTTL_AddWithTTL(ttlc.c, key, value, ttl, now)
     IN /\ ttlc' = [ttlc EXCEPT !.c = r.c]
        /\ tlast' = [op |-> "AddWithTTL", key |-> key, early |-> FALSE, ok |-> r.ok,
                     resident |-> LRU_Contains(ttlc.c.Cache, key),
                     due |-> [tlast.due EXCEPT ![key] = now + ttl]]
  /\ LruTTLFrame

LruTTLWake ==
  /\ IsLruWithTTL
  /\ \E g \in ttlc.c.timers :
       /\ g.pc = "sleep"
       /\ now >= g.wake
       /\ ttlc' = [ttlc EXCEPT !.c = LruWithTTL_clearSchedule(ttlc.c, g)]
       /\ tlast' = [tlast EXCEPT !.op = "clearSchedule", !.key = g.key,
                                 !.early = now < tlast.due[g.key],
                                 !.ok = FALSE,
                                 !.resident = LRU_Contains(ttlc.c.Cache, g.key)]
  /\ LruTTLFrame

LruTTLRemove ==
  /\ IsLruWithTTL
  /\ \E g \in ttlc.c.timers :
       /\ g.pc = "remove"
       /\ LET r == LruWithTTL_Remove(ttlc.c, g)
          IN /\ ttlc' = [ttlc EXCEPT !.c = r.c]
             /\ tlast' = [tlast EXCEPT !.op = "Remove", !.key = g.key,
                                       !.early = now < tlast.due[g.key],
                                       !.ok = r.ok,
                                       !.resident = LRU_Contains(ttlc.c.Cache, g.key)]
  /\ LruTTLFrame

NextLruTTL ==
  \/ \E key \in TimedKeys, ttl \in Durations : LruTTLAddWithTTL(key, ValueOf(key), ttl)
  \/ LruTTLWake
  \/ LruTTLRemove
  \/ Advance

SpecLruTTL == InitLruTTL /\ [][NextLruTTL]_vars

\* ------------------------------------------------------ ExpiringCache
\* times of the ExpiringCache are counted in units of 5 seconds
\* NewExpiringLRU(3, 30*time.Second, ...) of the two expiry tests
TestSize == 3

TestExpiry == 6

\* tt.Advance(20 * time.Second), then tt.Advance(15 * time.Second)
TestAdvance1 == 4

TestAdvance2 == 3

\* the keys a caller uses are 0, 1, 2, ... in the order of their first Add;
\* the tests use five of them
TestKeys == 5

ExpiringKeys == 0..(MaxFresh - 1)

AllExpiringKeys == ExpiringKeys \cup 0..(TestKeys - 1)

expireAfterWrite == "expireAfterWrite"

expireAfterAccess == "expireAfterAccess"

\* NewExpiringLRU with the option opt; the backing cache is a simplelru.LRU
\* whose values are the *entry of each key
NewExpiringLRU(size, expir, opt) ==
  [lru |-> NewLRU(size, FALSE), expiration |-> expir, expireList |-> <<>>,
   expireType |-> opt]

\* the entry of a key: val and expirationTime (its key names it; elem is its
\* place in expireList)
entry(val, expirationTime) == [val |-> val, expirationTime |-> expirationTime]

\* expirationTime of the entry of key k
expirationTimeOf(c, k) == LRU_Peek(c.lru, k).v.expirationTime

\* expireList is the sequence of the keys of its entries, front first
expireList_Remove(l, k) == SelectSeq(l, LAMBDA x : x # k)

\* the first element e, from the front, with !ent.expirationTime.Before(e's);
\* 0 if there is none. The entry being placed has key k and expiration time t
expireList_firstNotAfter(c, l, k, t) ==
  LET hits == {i \in DOMAIN l : l[i] = k \/ t >= expirationTimeOf(c, l[i])}
  IN IF hits = {} THEN 0 ELSE CHOOSE i \in hits : \A j \in hits : i <= j

InsertBefore(l, i, k) == SubSeq(l, 1, i - 1) \o <<k>> \o SubSeq(l, i, Len(l))

\* PushFront of a new entry (k, t): InsertBefore the element found, else PushBack
expireList_PushFront(c, k, t) ==
  LET place(i) == IF i = 0 THEN Append(c.expireList, k)
                  ELSE InsertBefore(c.expireList, i, k)
  IN place(expireList_firstNotAfter(c, c.expireList, k, t))

\* MoveToFront of the entry of k, whose expirationTime is t by now: MoveBefore
\* the element found (a no-op if that is the entry itself)
expireList_MoveToFront(c, k, t) ==
  LET place(i) ==
        IF c.expireList[i] = k THEN c.expireList
        ELSE InsertBefore(expireList_Remove(c.expireList, k), i, k)
  IN place(expireList_firstNotAfter(c, c.expireList, k, t))

\* removeExpired: entries are taken from the back of expireList while the
\* back one is expired (one at most unless removeAllExpired), and removed from
\* the backing cache; ev lists them
RECURSIVE ExpiringCache_removeExpired(_, _, _, _)
ExpiringCache_removeExpired(c, t, removeAllExpired, res) ==
  IF c.expireList = <<>> THEN Res(c, res, Zero, Zero, res # <<>>, FALSE)
  ELSE LET back == c.expireList[Len(c.expireList)]
           gone(e) ==
             LET c1 == [c EXCEPT !.expireList = SubSeq(c.expireList, 1, Len(c.expireList) - 1),
                                 !.lru = LRU_Remove(c.lru, back).c]
             IN IF removeAllExpired
                THEN ExpiringCache_removeExpired(c1, t, TRUE, Append(res, <<back, e.val>>))
                ELSE Res(c1, Append(res, <<back, e.val>>), Zero, Zero, TRUE, FALSE)
       IN IF expirationTimeOf(c, back) > t THEN Res(c, res, Zero, Zero, res # <<>>, FALSE)
          ELSE gone(LRU_Peek(c.lru, back).v)

\* variant: a new key is added without removing an expired entry first
ExpiringCache_AddWithTTL_keepsExpired(c, k, v, expiration, t) ==
  IF LRU_Contains(c.lru, k)
  THEN LET update(r) ==
             Res([c EXCEPT !.lru = r.c,
                           !.expireList = expireList_MoveToFront(c, k, t + expiration)],
                 <<>>, Zero, Zero, r.ok, FALSE)
       IN update(LRU_Add(c.lru, k, entry(v, t + expiration)))
  ELSE LET l1 == expireList_PushFront(c, k, t + expiration)
           put(r) ==
             IF r.ok
             THEN Res([c EXCEPT !.lru = r.c,
                                !.expireList = expireList_Remove(l1, r.ev[1][1])],
                      <<<<r.ev[1][1], r.ev[1][2].val>>>>, Zero, Zero, TRUE, FALSE)
             ELSE Res([c EXCEPT !.lru = r.c, !.expireList = l1], <<>>, Zero, Zero,
                      FALSE, FALSE)
       IN put(LRU_Add(c.lru, k, entry(v, t + expiration)))

\* variant: a new key is added after removing every expired entry
ExpiringCache_AddWithTTL_removesAll(c, k, v, expiration, t) ==
  IF LRU_Contains(c.lru, k)
  THEN LET update(r) ==
             Res([c EXCEPT !.lru = r.c,
                           !.expireList = expireList_MoveToFront(c, k, t + expiration)],
                 <<>>, Zero, Zero, r.ok, FALSE)
       IN update(LRU_Add(c.lru, k, entry(v, t + expiration)))
  ELSE LET add(x) ==
             LET l1 == expireList_PushFront(x.c, k, t + expiration)
                 put(r) ==
                   IF r.ok
                   THEN Res([x.c EXCEPT !.lru = r.c,
                                        !.expireList = expireList_Remove(l1, r.ev[1][1])],
                            <<<<r.ev[1][1], r.ev[1][2].val>>>>, Zero, Zero, TRUE, FALSE)
                   ELSE Res([x.c EXCEPT !.lru = r.c, !.expireList = l1],
                            IF x.ev # <<>> THEN <<x.ev[1]>> ELSE <<>>,
                            Zero, Zero, x.ev # <<>>, FALSE)
             IN put(LRU_Add(x.c.lru, k, entry(v, t + expiration)))
       IN add(ExpiringCache_removeExpired(c, t, TRUE, <<>>))

\* AddWithTTL: ev is the evicted pair handed back through evictedKeyVal, ok
\* the returned flag
ExpiringCache_AddWithTTL(c, k, v, expiration, t) ==
  IF LRU_Contains(c.lru, k)
  THEN LET update(r) ==
             Res([c EXCEPT !.lru = r.c,
                           !.expireList = expireList_MoveToFront(c, k, t + expiration)],
                 <<>>, Zero, Zero, r.ok, FALSE)
       IN update(LRU_Add(c.lru, k, entry(v, t + expiration)))
  ELSE LET add(x) ==
             LET l1 == expireList_PushFront(x.c, k, t + expiration)
                 put(r) ==
                   IF r.ok
                   THEN Res([x.c EXCEPT !.lru = r.c,
                                        !.expireList = expireList_Remove(l1, r.ev[1][1])],
                            <<<<r.ev[1][1], r.ev[1][2].val>>>>, Zero, Zero, TRUE, FALSE)
                   ELSE Res([x.c EXCEPT !.lru = r.c, !.expireList = l1],
                            IF x.ev # <<>> THEN <<x.ev[1]>> ELSE <<>>,
                            Zero, Zero, x.ev # <<>>, FALSE)
             IN put(LRU_Add(x.c.lru, k, entry(v, t + expiration)))
       IN add(ExpiringCache_removeExpired(c, t, FALSE, <<>>))

ExpiringCache_Add(c, k, v, t) == ExpiringCache_AddWithTTL(c, k, v, c.expiration, t)

\* variant: a hit leaves expirationTime alone whatever expireType is
ExpiringCache_Get_noRenewal(c, k, t) ==
  LET get(r) ==
        IF r.ok /\ r.v.expirationTime > t
        THEN Res([c EXCEPT !.lru = r.c], <<>>, Zero, r.v.val, TRUE, FALSE)
        ELSE Res([c EXCEPT !.lru = r.c], <<>>, Zero, Zero, FALSE, FALSE)
  IN get(LRU_Get(c.lru, k))

\* Get: the backing Get moves the entry to the front whether it is expired
\* or not
ExpiringCache_Get(c, k, t) ==
  LET get(r) ==
        IF r.ok /\ r.v.expirationTime > t
        THEN IF c.expireType = expireAfterAccess
             THEN LET i == IndexOf(r.c.evictList, k)
                      c1 == [c EXCEPT !.lru = [r.c EXCEPT !.evictList[i].Value.expirationTime =
                                                             t + c.expiration]]
                  IN Res([c1 EXCEPT !.expireList =
                                       expireList_MoveToFront(c1, k, t + c.expiration)],
                         <<>>, Zero, r.v.val, TRUE, FALSE)
             ELSE Res([c EXCEPT !.lru = r.c], <<>>, Zero, r.v.val, TRUE, FALSE)
        ELSE Res([c EXCEPT !.lru = r.c], <<>>, Zero, Zero, FALSE, FALSE)
  IN get(LRU_Get(c.lru, k))

\* Peek returns the value and false for an entry that is there but expired
ExpiringCache_Peek(c, k, t) ==
  LET peek(r) ==
        IF r.ok THEN Res(c, <<>>, Zero, r.v.val, r.v.expirationTime > t, FALSE)
        ELSE Res(c, <<>>, Zero, Zero, FALSE, FALSE)
  IN peek(LRU_Peek(c.lru, k))

ExpiringCache_Remove(c, k) ==
  IF LRU_Contains(c.lru, k)
  THEN Res([c EXCEPT !.expireList = expireList_Remove(c.expireList, k),
                     !.lru = LRU_Remove(c.lru, k).c], <<>>, Zero, Zero, TRUE, FALSE)
  ELSE Res(c, <<>>, Zero, Zero, FALSE, FALSE)

\* Len removes all expired entries first; v is the returned length
ExpiringCache_Len(c, t) ==
  LET len(x) == Res(x.c, x.ev, Zero, LRU_Len(x.c.lru), TRUE, FALSE)
  IN len(ExpiringCache_removeExpired(c, t, TRUE, <<>>))

\* Keys removes all expired entries first; k is the returned slice
ExpiringCache_Keys(c, t) ==
  LET keys(x) == Res(x.c, x.ev, LRU_Keys(x.c.lru), Zero, TRUE, FALSE)
  IN keys(ExpiringCache_removeExpired(c, t, TRUE, <<>>))

\* the calls of TestExpiringLRU_ExpireAfterWrite and of
\* TestExpiringLRU_ExpireAfterAccess, in order
TestScript ==
  <<<<"Add", 0>>, <<"Add", 1>>, <<"Advance", TestAdvance1>>, <<"Add", 2>>,
    <<"Get", 0>>, <<"Get", 1>>, <<"Advance", TestAdvance2>>, <<"Add", 3>>,
    <<"Add", 4>>, <<"Len", 0>>, <<"Keys", 0>>>>

\* the caller is either the test, which makes the calls of TestScript one
\* after the other (ehist.step counts them), or any caller (ehist.step = -1)
\* that uses the keys of ExpiringKeys and lets time pass second by second
Allowed(call) ==
  IF ehist.step < 0
  THEN IF call[1] = "Advance" THEN call[2] = 1 /\ now < MaxTimer
       ELSE call[2] \in ExpiringKeys /\ call[2] <= ehist.used
  ELSE ehist.step < Len(TestScript) /\ TestScript[ehist.step + 1] = call

Followed == IF ehist.step < 0 THEN ehist.step ELSE ehist.step + 1

\* when the entry of k expires, counted from its last Add (and, after
\* access, from its last successful Get)
Due(k) ==
  IF elru.expireType = expireAfterAccess /\ ehist.touch[k].read > ehist.touch[k].written
  THEN ehist.touch[k].read + elru.expiration
  ELSE ehist.touch[k].written + elru.expiration

InitExpiring ==
  /\ policy = ""
  /\ wrapper = "part_000"
  /\ evictedKeys = <<>>
  /\ evictedVals = <<>>
  /\ onEvictedCB = FALSE
  /\ exp = NoExp
  /\ cache = NoCache
  /\ twoq = NoTwoQ
  /\ arc = NoARC
  /\ panicked = FALSE
  /\ last = NoCall
  /\ was = NoObserved
  /\ useOrder = <<>>
  /\ s2 = -1
  /\ s2ev = <<>>
  /\ reentrant = FALSE
  /\ Quiet
  /\ NoNew
  /\ NoTTL
  /\ NoClose
  /\ NoFilling
  /\ NoRW
  /\ NoSweeper
  /\ NoTS
  /\ \E opt \in {expireAfterWrite, expireAfterAccess} :
       \/ /\ elru = NewExpiringLRU(TestSize, TestExpiry, opt)
          /\ ehist = [used |-> 0, touch |-> [k \in AllExpiringKeys |-> NoTouch], step |-> 0]
       \/ \E size \in Sizes \ {0} :
            /\ elru = NewExpiringLRU(size, MaxExpiry, opt)
            /\ ehist = [used |-> 0, touch |-> [k \in AllExpiringKeys |-> NoTouch],
                        step |-> 0 - 1]
  /\ elast = NoExpiringCall

\* a call on elru at time now returns r; touched is what it does to the
\* times kept for key
ExpiringDone(op, key, r, touched) ==
  /\ Allowed(<<op, key>>)
  /\ elru' = r.c
  /\ elast' = [op |-> op, key |-> key, v |-> r.v, ok |-> r.ok, t |-> now,
               resident |-> LRU_Contains(elru.lru, key),
               wasExpiry |-> IF LRU_Contains(elru.lru, key)
                             THEN expirationTimeOf(elru, key) ELSE 0,
               written |-> ehist.touch[key].written, read |-> ehist.touch[key].read,
               evictedKey |-> IF r.ev # <<>> THEN r.ev[1][1] ELSE 0 - 1,
               stale |-> {k \in items(elru.lru) : Due(k) <= now},
               keys |-> IF op = "Keys" THEN r.k ELSE <<>>]
  /\ ehist' = [used |-> IF op = "Add" /\ key = ehist.used THEN key + 1 ELSE ehist.used,
               touch |-> [k \in AllExpiringKeys |->
                            IF ~LRU_Contains(r.c.lru, k) THEN NoTouch
                            ELSE IF k = key THEN touched ELSE ehist.touch[k]],
               step |-> Followed]
  /\ UNCHANGED <<policy, wrapper, cache, evictedKeys, evictedVals, onEvictedCB, panicked,
                 ctor, built, ttlc, tlast, closer, fcache, fproc, fills, rw, sweeper, ts>>
  /\ UNCHANGED <<seqVars, concVars>>

ExpiringAdd(key) ==
  ExpiringDone("Add", key, ExpiringCache_Add(elru, key, key, now),
                  [written |-> now, read |-> 0])

ExpiringGet(key) ==
  LET got(r) == ExpiringDone("Get", key, r,
                             IF r.ok THEN [ehist.touch[key] EXCEPT !.read = now]
                             ELSE ehist.touch[key])
  IN got(ExpiringCache_Get(elru, key, now))

ExpiringPeek(key) ==
  ExpiringDone("Peek", key, ExpiringCache_Peek(elru, key, now), ehist.touch[key])

ExpiringRemove(key) ==
  ExpiringDone("Remove", key, ExpiringCache_Remove(elru, key), NoTouch)

ExpiringLen == ExpiringDone("Len", 0, ExpiringCache_Len(elru, now), ehist.touch[0])

ExpiringKeysCall == ExpiringDone("Keys", 0, ExpiringCache_Keys(elru, now), ehist.touch[0])

\* tt.Advance(d): the time elru.timeNow() returns moves on by d
TimerAdvance(d) ==
  /\ Allowed(<<"Advance", d>>)
  /\ now' = now + d
  /\ ehist' = [ehist EXCEPT !.step = Followed]
  /\ UNCHANGED <<policy, wrapper, cache, evictedKeys, evictedVals, onEvictedCB, panicked,
                 exp, ticks, lock, pc, pend, results, reentrant, calls, lockLog, cbLog>>
  /\ UNCHANGED <<ctor, built, ttlc, tlast, elru, elast, closer, fcache, fproc, fills, rw, sweeper, ts>>
  /\ UNCHANGED seqVars

NextExpiring ==
  \/ \E key \in AllExpiringKeys : ExpiringAdd(key)
  \/ \E key \in AllExpiringKeys : ExpiringGet(key)
  \/ \E key \in AllExpiringKeys : ExpiringPeek(key)
  \/ \E key \in AllExpiringKeys : ExpiringRemove(key)
  \/ ExpiringLen
  \/ ExpiringKeysCall
  \/ \E d \in {1, TestAdvance1, TestAdvance2} : TimerAdvance(d)

SpecExpiring == InitExpiring /\ [][NextExpiring]_vars

\* ------------------------- ExpiringCache over an LRU, a 2Q or an ARC
\* the backing cache is a pair of its kind and the cache; the values it holds
\* are references to entries, numbered 1..MaxEntries; c.ents maps a
\* reference to its entry, and expireList is a sequence of references
BackKeys == 1..MaxBackKey

EntryRefs == 1..MaxEntries

NoEntry == [key |-> Zero, val |-> Zero, expirationTime |-> 0]

lruCache(kind, r) == [r EXCEPT !.c = [kind |-> kind, c |-> r.c]]

lruCache_Add(b, k, v) ==
  lruCache(b.kind, CASE b.kind = "lru" -> LRU_Add(b.c, k, v)
                     [] b.kind = "2q" -> TwoQueueCache_Add(b.c, k, v)
                     [] b.kind = "arc" -> ARCCache_Add(b.c, k, v))

lruCache_Get(b, k) ==
  lruCache(b.kind, CASE b.kind = "lru" -> LRU_Get(b.c, k)
                     [] b.kind = "2q" -> TwoQueueCache_Get(b.c, k)
                     [] b.kind = "arc" -> ARCCache_Get(b.c, k))

lruCache_Peek(b, k) ==
  CASE b.kind = "lru" -> LRU_Peek(b.c, k)
    [] b.kind = "2q" -> TwoQueueCache_Peek(b.c, k)
    [] b.kind = "arc" -> ARCCache_Peek(b.c, k)

lruCache_Remove(b, k) ==
  lruCache(b.kind, CASE b.kind = "lru" -> LRU_Remove(b.c, k)
                     [] b.kind = "2q" -> TwoQueueCache_Remove(b.c, k)
                     [] b.kind = "arc" -> ARCCache_Remove(b.c, k))

lruCache_Purge(b) ==
  [b EXCEPT !.c = CASE b.kind = "lru" -> NewLRU(b.c.size, FALSE)
                    [] b.kind = "2q" -> TwoQueueCache_Purge(b.c)
                    [] b.kind = "arc" -> ARCCache_Purge(b.c)]

\* the keys resident in the backing cache
lruCache_Keys(b) ==
  CASE b.kind = "lru" -> items(b.c)
    [] b.kind = "2q" -> items(b.c.recent) \cup items(b.c.frequent)
    [] b.kind = "arc" -> items(b.c.t1) \cup items(b.c.t2)

\* NewExpiringLRU, NewExpiring2Q (default ratios) and NewExpiringARC
Expiring(kind, size, expir, opt) ==
  [lru |-> [kind |-> kind,
            c |-> CASE kind = "lru" -> NewLRU(size, FALSE)
                    [] kind = "2q" -> New2QParams(size, 25, 50)
                    [] kind = "arc" -> NewARC(size)],
   expiration |-> expir, expireList |-> <<>>, expireType |-> opt,
   ents |-> [i \in EntryRefs |-> NoEntry]]

\* the entries held neither by the list nor by the backing cache are garbage
Collected(c) ==
  [c EXCEPT !.ents = [i \in EntryRefs |->
                        IF \E j \in DOMAIN c.expireList : c.expireList[j] = i
                        THEN c.ents[i] ELSE NoEntry]]

\* a new entry: the first reference not in use
newEntry(c) ==
  CHOOSE i \in EntryRefs :
    /\ \A j \in DOMAIN c.expireList : c.expireList[j] # i
    /\ \A h \in EntryRefs : (\A j \in DOMAIN c.expireList : c.expireList[j] # h) => i <= h

\* the first element, from the front, whose expirationTime is not after that
\* of ent; 0 if there is none
Backed_firstNotAfter(c, ent) ==
  LET hits == {i \in DOMAIN c.expireList :
                 c.ents[ent].expirationTime >= c.ents[c.expireList[i]].expirationTime}
  IN IF hits = {} THEN 0 ELSE CHOOSE i \in hits : \A j \in hits : i <= j

IndexOfRef(l, ent) == CHOOSE i \in DOMAIN l : l[i] = ent

\* expireList.PushFront(ent)
Backed_PushFront(c, ent) ==
  LET place(i) == IF i = 0 THEN Append(c.expireList, ent)
                  ELSE InsertBefore(c.expireList, i, ent)
  IN place(Backed_firstNotAfter(c, ent))

\* expireList.MoveToFront(ent)
Backed_MoveToFront(c, ent) ==
  LET before(l, at) == InsertBefore(l, IndexOfRef(l, at), ent)
      place(i) ==
        IF i = 0 THEN Append(expireList_Remove(c.expireList, ent), ent)
        ELSE IF c.expireList[i] = ent THEN c.expireList
        ELSE before(expireList_Remove(c.expireList, ent), c.expireList[i])
  IN place(Backed_firstNotAfter(c, ent))

RECURSIVE Backed_removeExpired(_, _, _, _)
Backed_removeExpired(c, t, removeAllExpired, res) ==
  IF c.expireList = <<>> THEN Res(c, res, Zero, Zero, res # <<>>, FALSE)
  ELSE LET removed(e, c1) ==
             IF e.expirationTime > t THEN Res(c, res, Zero, Zero, res # <<>>, FALSE)
             ELSE IF removeAllExpired
             THEN Backed_removeExpired(c1, t, TRUE, Append(res, <<e.key, e.val>>))
             ELSE Res(c1, Append(res, <<e.key, e.val>>), Zero, Zero, TRUE, FALSE)
           back(e) ==
             removed(e, [c EXCEPT !.expireList = SubSeq(c.expireList, 1,
                                                        Len(c.expireList) - 1),
                                  !.lru = lruCache_Remove(c.lru, e.key).c])
       IN back(c.ents[c.expireList[Len(c.expireList)]])

\* AddWithTTL: ev is the evicted pair handed back, ok the returned flag
Backed_AddWithTTL(c, k, v, expiration, t) ==
  LET added(c1, l1, expired, r) ==
        Res(Collected([c1 EXCEPT !.lru = r.c,
                                 !.expireList = IF r.ok
                                                THEN expireList_Remove(l1, r.ev[1][2])
                                                ELSE l1]),
            IF r.ok THEN <<<<r.ev[1][1], c1.ents[r.ev[1][2]].val>>>>
            ELSE IF expired # <<>> THEN <<expired[1]>> ELSE <<>>,
            Zero, Zero, r.ok \/ expired # <<>>, FALSE)
      put(c1, ent, l1, expired) == added(c1, l1, expired, lruCache_Add(c1.lru, k, ent))
      set(c0, ent, key) ==
        [c0 EXCEPT !.ents[ent] = [key |-> key, val |-> v,
                                  expirationTime |-> t + expiration]]
      moved(c1, ent) == put(c1, ent, Backed_MoveToFront(c1, ent), <<>>)
      update(ent) == moved(set(c, ent, c.ents[ent].key), ent)
      pushed(c1, ent, expired) == put(c1, ent, Backed_PushFront(c1, ent), expired)
      fresh(x, ent) == pushed(set(x.c, ent, k), ent, x.ev)
      add(x) == fresh(x, newEntry(x.c))
      peeked(p) == IF p.ok THEN update(p.v)
                   ELSE add(Backed_removeExpired(c, t, FALSE, <<>>))
  IN peeked(lruCache_Peek(c.lru, k))

Backed_Get(c, k, t) ==
  LET touched(c1, ent) ==
        Res([c1 EXCEPT !.expireList = Backed_MoveToFront(c1, ent)],
            <<>>, Zero, c.ents[ent].val, TRUE, FALSE)
      got(c0, r) ==
        IF r.ok /\ c.ents[r.v].expirationTime > t
        THEN IF c.expireType = expireAfterAccess
             THEN touched([c0 EXCEPT !.ents[r.v].expirationTime = t + c.expiration], r.v)
             ELSE Res(c0, <<>>, Zero, c.ents[r.v].val, TRUE, FALSE)
        ELSE Res(c0, <<>>, Zero, Zero, FALSE, FALSE)
      get(r) == got([c EXCEPT !.lru = r.c], r)
  IN get(lruCache_Get(c.lru, k))

Backed_Remove(c, k) ==
  LET removed(p, r) ==
        Res(Collected([c EXCEPT !.expireList = expireList_Remove(c.expireList, p.v),
                                !.lru = r.c]),
            <<>>, Zero, Zero, r.ok, FALSE)
      remove(p) ==
        IF p.ok THEN removed(p, lruCache_Remove(c.lru, k))
        ELSE Res(c, <<>>, Zero, Zero, FALSE, FALSE)
  IN remove(lruCache_Peek(c.lru, k))

\* Len, and Keys and RemoveAllExpired alike, remove all expired entries
Backed_Len(c, t) ==
  LET len(x) == Res(Collected(x.c), x.ev, Zero, Cardinality(lruCache_Keys(x.c.lru)),
                    TRUE, FALSE)
  IN len(Backed_removeExpired(c, t, TRUE, <<>>))

Backed_Purge(c) ==
  Res(Collected([c EXCEPT !.expireList = <<>>, !.lru = lruCache_Purge(c.lru)]),
      <<>>, Zero, Zero, FALSE, FALSE)

\* the keys of the entries in expireList
expireListKeys(c) == {c.ents[c.expireList[i]].key : i \in DOMAIN c.expireList}

IsBacked == "ents" \in DOMAIN elru

InitBacked ==
  /\ policy = ""
  /\ wrapper = "part_000"
  /\ evictedKeys = <<>>
  /\ evictedVals = <<>>
  /\ onEvictedCB = FALSE
  /\ exp = NoExp
  /\ cache = NoCache
  /\ twoq = NoTwoQ
  /\ arc = NoARC
  /\ panicked = FALSE
  /\ last = NoCall
  /\ was = NoObserved
  /\ useOrder = <<>>
  /\ s2 = -1
  /\ s2ev = <<>>
  /\ reentrant = FALSE
  /\ Quiet
  /\ NoNew
  /\ NoTTL
  /\ NoClose
  /\ NoFilling
  /\ NoRW
  /\ NoSweeper
  /\ NoTS
  /\ \E kind \in {"lru", "2q", "arc"}, size \in Sizes \ {0},
        opt \in {expireAfterWrite, expireAfterAccess} :
       /\ kind = "2q" => New2QParamsOk(size, 25, 50)
       /\ elru = Expiring(kind, size, MaxExpiry, opt)
  /\ ehist = [used |-> 0, touch |-> <<>>, step |-> 0 - 1]
  /\ elast = NoExpiringCall

\* a call on elru at time now returns r
BackedDone(op, key, r) ==
  /\ IsBacked
  /\ elru' = r.c
  /\ elast' = [NoExpiringCall EXCEPT !.op = op, !.key = key, !.v = r.v, !.ok = r.ok,
                                     !.t = now,
                                     !.resident = key \in lruCache_Keys(elru.lru),
                                     !.evictedKey = IF r.ev # <<>> THEN r.ev[1][1]
                                                    ELSE 0 - 1]
  /\ UNCHANGED <<policy, wrapper, cache, evictedKeys, evictedVals, onEvictedCB, panicked,
                 ctor, built, ttlc, tlast, ehist, closer, fcache, fproc, fills, rw,
                 sweeper, ts>>
  /\ UNCHANGED <<seqVars, concVars>>

BackedAddWithTTL(key, expiration) ==
  /\ lruCache_Peek(elru.lru, key).ok \/ Len(elru.expireList) < MaxEntries
  /\ BackedDone("Add", key, Backed_AddWithTTL(elru, key, key, expiration, now))

BackedGet(key) == BackedDone("Get", key, Backed_Get(elru, key, now))

BackedRemove(key) == BackedDone("Remove", key, Backed_Remove(elru, key))

BackedLen == BackedDone("Len", 0, Backed_Len(elru, now))

BackedPurge == BackedDone("Purge", 0, Backed_Purge(elru))

NextBacked ==
  \/ \E key \in BackKeys, expiration \in 1..MaxExpiry : BackedAddWithTTL(key, expiration)
  \/ \E key \in BackKeys : BackedGet(key)
  \/ \E key \in BackKeys : BackedRemove(key)
  \/ BackedLen
  \/ BackedPurge
  \/ TimerAdvance(1)

SpecBacked == InitBacked /\ [][NextBacked]_vars

\* ---------------------------------------- the channel-based LRU (tslru)
\* one caller and the goroutine of work(). Entries are references 1..MaxRefs:
\* ts.ents maps a reference to its key and tells whether its element is set;
\* ts.items maps a key to the reference of its entry, 0 if there is none;
\* evictList is a sequence of references, front first; ctl is the channel of
\* actions. The reply channels are unbuffered and the caller is their only
\* reader, so a send by work() and the receive by the caller are one step.
\* v tells the version: "tslru" (src/tslru/lru.go) keeps items under a mutex
\* on the caller's side, "counted" (src/2q.go) keeps items and size in work()
TsKeys == 1..MaxTsKey

Refs == 1..MaxRefs

\* the capacity of ctl
ctlCap == 1024

\* work() starts trimming when items exceeds the limit by this much
trimSlack == 500

NoRef == [key |-> Zero, element |-> FALSE]

tslru_NewLRU(v, size) ==
  [v |-> v, limit |-> size, size |-> 0, items |-> [k \in TsKeys |-> 0],
   ents |-> [e \in Refs |-> NoRef], evictList |-> <<>>, ctl |-> <<>>,
   caller |-> IdleCaller, dead |-> FALSE, last |-> NoTsCall]

\* the keys in c.items
tslru_resident(c) == {k \in TsKeys : c.items[k] # 0}

\* the references in use: indexed, linked or on their way in ctl
RefsInUse(c) ==
  {c.items[k] : k \in tslru_resident(c)}
    \cup {c.evictList[i] : i \in DOMAIN c.evictList}
    \cup {c.ctl[i].ele : i \in DOMAIN c.ctl}

newRef(c) == CHOOSE e \in Refs \ RefsInUse(c) : \A f \in Refs \ RefsInUse(c) : e <= f

\* entries no one refers to are garbage
Swept_ents(c) ==
  [c EXCEPT !.ents = [e \in Refs |-> IF e \in RefsInUse(c) THEN c.ents[e] ELSE NoRef]]

send(c, t, ele) == [c EXCEPT !.ctl = Append(c.ctl, [t |-> t, ele |-> ele])]

\* the caller waits for the reply of work() to the action it sent
waiting(c, op, key) == [c EXCEPT !.caller = [pc |-> "wait", op |-> op, key |-> key]]

\* the call returns
returned(c, op, key, ok, keys) ==
  Swept_ents([c EXCEPT !.caller = IdleCaller,
                       !.last = [op |-> op, key |-> key, ok |-> ok, keys |-> keys,
                                 resident |-> tslru_resident(c)]])

\* Add: "tslru" stores the entry and sends addAction without waiting;
\* "counted" sends hitAction for a key it holds with the same value, else
\* addAction, and waits for the reply
tslru_Add(c, key) ==
  IF c.v = "tslru"
  THEN LET ent == newRef(c)
           c1 == [c EXCEPT !.items[key] = ent, !.ents[ent] = [key |-> key, element |-> FALSE]]
       IN returned(send(c1, "add", ent), "Add", key,
                   Cardinality(tslru_resident(c1)) > c.limit, <<>>)
  ELSE IF c.items[key] # 0
  THEN returned(send(c, "hit", c.items[key]), "Add", key, FALSE, <<>>)
  ELSE LET ent == newRef(c)
           c1 == [c EXCEPT !.ents[ent] = [key |-> key, element |-> FALSE]]
       IN waiting(send(c1, "add", ent), "Add", key)

\* Get: the hit is sent only if ctl has room (select with default)
tslru_Get(c, key) ==
  IF c.items[key] # 0
  THEN returned(IF Len(c.ctl) < ctlCap THEN send(c, "hit", c.items[key]) ELSE c,
                "Get", key, TRUE, <<>>)
  ELSE returned(c, "Get", key, FALSE, <<>>)

tslru_Remove(c, op, key) ==
  IF c.items[key] = 0 THEN returned(c, op, key, op = "RemoveOldest", <<>>)
  ELSE IF c.v = "tslru"
  THEN returned(send([c EXCEPT !.items[key] = 0], "del", c.items[key]), op, key, TRUE, <<>>)
  ELSE waiting(send(c, "del", c.items[key]), IF op = "RemoveOldest" THEN "removed" ELSE op,
               key)

tslru_GetOldest(c, op) == waiting(send(c, "get_old", 0), op, Zero)

tslru_Keys(c) == waiting(send(c, "iter", 0), "Keys", Zero)

tslru_Purge(c) ==
  waiting(send(IF c.v = "tslru" THEN [c EXCEPT !.items = [k \in TsKeys |-> 0]] ELSE c,
               "purge", 0), "Purge", Zero)

\* gc of the counted version: entries leave from the back while size > limit
RECURSIVE tslru_gc(_, _)
tslru_gc(c, n) ==
  IF c.size > c.limit /\ n < Len(c.evictList)
  THEN LET ele == c.evictList[Len(c.evictList) - n]
       IN tslru_gc([c EXCEPT !.items[c.ents[ele].key] = 0, !.size = c.size - 1], n + 1)
  ELSE [c EXCEPT !.evictList = SubSeq(c.evictList, 1, Len(c.evictList) - n)]

\* the trimming of the tslru version: entries leave from the back while items
\* holds more than limit keys
RECURSIVE tslru_trim(_, _)
tslru_trim(c, n) ==
  IF Cardinality(tslru_resident(c)) > c.limit /\ n < Len(c.evictList)
  THEN LET ele == c.evictList[Len(c.evictList) - n]
       IN tslru_trim([c EXCEPT !.items[c.ents[ele].key] = 0], n + 1)
  ELSE [c EXCEPT !.evictList = SubSeq(c.evictList, 1, Len(c.evictList) - n)]

\* iterAction: from the back, while ele != nil && ele != c.evictList.Front()
tslru_iter(c) == [i \in 1..(Len(c.evictList) - 1) |->
                    c.ents[c.evictList[Len(c.evictList) + 1 - i]].key]

\* the reply to oldestAction reaches GetOldest, which returns, or RemoveOldest,
\* which goes on with Remove(k)
oldest(c, ele) ==
  IF c.caller.op = "RemoveOldest" THEN tslru_Remove(c, "RemoveOldest", c.ents[ele].key)
  ELSE returned(c, "GetOldest", c.ents[ele].key, TRUE, <<>>)

\* work(): one action is taken from ctl and handled
tslru_work(c0) ==
  LET act == Head(c0.ctl)
      c == [c0 EXCEPT !.ctl = Tail(c0.ctl)]
      linked(ele) == \E i \in DOMAIN c.evictList : c.evictList[i] = ele
      unlink(l, ele) == SelectSeq(l, LAMBDA x : x # ele)
  IN CASE act.t = "hit" ->
            IF linked(act.ele)
            THEN [c EXCEPT !.evictList = <<act.ele>> \o unlink(c.evictList, act.ele)]
            ELSE IF c.v = "tslru" \/ c.ents[act.ele].element THEN c
            ELSE [c EXCEPT !.dead = TRUE]
       [] act.t = "add" ->
            IF c.v = "tslru"
            THEN LET keep == IF Cardinality(tslru_resident(c)) > c.limit + trimSlack
                             THEN tslru_trim(c, 0) ELSE c
                 IN [keep EXCEPT !.ents[act.ele].element = TRUE,
                                 !.evictList = <<act.ele>> \o keep.evictList]
            ELSE LET c1 == [c EXCEPT !.items[c.ents[act.ele].key] = act.ele,
                                     !.size = c.size + 1]
                     c2 == tslru_gc(c1, 0)
                     c3 == [c2 EXCEPT !.ents[act.ele].element = TRUE,
                                      !.evictList = <<act.ele>> \o c2.evictList]
                 IN returned(c3, "Add", c.caller.key, c2.size < c1.size, <<>>)
       [] act.t = "del" ->
            IF c.v = "tslru"
            THEN Swept_ents([c EXCEPT !.evictList = unlink(c.evictList, act.ele)])
            ELSE LET key == c.ents[act.ele].key
                     c1 == [c EXCEPT !.items[key] = 0, !.size = c.size - 1,
                                     !.evictList = unlink(c.evictList, act.ele)]
                 IN returned(c1, IF c.caller.op = "removed" THEN "RemoveOldest" ELSE "Remove",
                             key, IF c.caller.op = "removed" THEN TRUE ELSE c.items[key] # 0,
                             <<>>)
       [] act.t = "get_old" ->
            IF c.evictList # <<>> THEN oldest(c, c.evictList[Len(c.evictList)])
            ELSE IF c.v = "tslru" THEN c
            ELSE [c EXCEPT !.dead = TRUE]
       [] act.t = "iter" -> returned(c, "Keys", Zero, TRUE, tslru_iter(c))
       [] act.t = "purge" ->
            returned(IF c.v = "tslru" THEN [c EXCEPT !.evictList = <<>>]
                     ELSE [c EXCEPT !.evictList = <<>>,
                                    !.size = c.size - Cardinality(tslru_resident(c)),
                                    !.items = [k \in TsKeys |-> 0]],
                     "Purge", Zero, TRUE, <<>>)

IsTS == ts.v # ""

InitTS ==
  /\ policy = ""
  /\ wrapper = "part_000"
  /\ evictedKeys = <<>>
  /\ evictedVals = <<>>
  /\ onEvictedCB = FALSE
  /\ exp = NoExp
  /\ cache = NoCache
  /\ twoq = NoTwoQ
  /\ arc = NoARC
  /\ panicked = FALSE
  /\ last = NoCall
  /\ was = NoObserved
  /\ useOrder = <<>>
  /\ s2 = -1
  /\ s2ev = <<>>
  /\ reentrant = FALSE
  /\ Quiet
  /\ NoNew
  /\ NoTTL
  /\ NoExpiring
  /\ NoClose
  /\ NoFilling
  /\ NoRW
  /\ NoSweeper
  /\ \E v \in {"tslru", "counted"}, size \in Sizes \ {0} : ts = tslru_NewLRU(v, size)

\* the caller starts a call when it is in none, ctl has room in the model and
\* there is a reference for a new entry
TsCall(c) ==
  /\ IsTS
  /\ ts.caller.pc = "idle"
  /\ ~ts.dead
  /\ Len(ts.ctl) < MaxQueue
  /\ Refs \ RefsInUse(ts) # {}
  /\ ts' = c
  /\ UNCHANGED <<policy, wrapper, cache, evictedKeys, evictedVals, onEvictedCB, panicked,
                 seqVars, concVars>>
  /\ UNCHANGED <<ctor, built, ttlc, tlast, elru, elast, ehist, closer, fcache, fproc,
                 fills, rw, sweeper>>

TsAdd(key) == TsCall(tslru_Add(ts, key))

TsGet(key) == TsCall(tslru_Get(ts, key))

TsRemove(key) == TsCall(tslru_Remove(ts, "Remove", key))

TsGetOldest == TsCall(tslru_GetOldest(ts, "GetOldest"))

TsRemoveOldest == TsCall(tslru_GetOldest(ts, "RemoveOldest"))

TsKeysCall == TsCall(tslru_Keys(ts))

TsPurge == TsCall(tslru_Purge(ts))

TsWork ==
  /\ IsTS
  /\ ~ts.dead
  /\ ts.ctl # <<>>
  /\ ts' = tslru_work(ts)
  /\ UNCHANGED <<policy, wrapper, cache, evictedKeys, evictedVals, onEvictedCB, panicked,
                 seqVars, concVars>>
  /\ UNCHANGED <<ctor, built, ttlc, tlast, elru, elast, ehist, closer, fcache, fproc,
                 fills, rw, sweeper>>

NextTS ==
  \/ \E key \in TsKeys : TsAdd(key)
  \/ \E key \in TsKeys : TsGet(key)
  \/ \E key \in TsKeys : TsRemove(key)
  \/ TsGetOldest
  \/ TsRemoveOldest
  \/ TsKeysCall
  \/ TsPurge
  \/ TsWork

SpecTS == InitTS /\ [][NextTS]_vars

\* ------------------------------------------ Close of an expirable cache
\* goroutines call Close on one cache made by NewExpirableLRU: either an
\* ExpirableLRU (expirable_lru.go) or the LRU of the version whose
\* NewExpirableLRU takes purgeEvery (lru.go); done is its channel and cleanup
\* the goroutine started when ttl is set
InitClose ==
  /\ policy = ""
  /\ wrapper = "part_000"
  /\ evictedKeys = <<>>
  /\ evictedVals = <<>>
  /\ onEvictedCB = FALSE
  /\ exp = NoExp
  /\ cache = NoCache
  /\ twoq = NoTwoQ
  /\ arc = NoARC
  /\ panicked = FALSE
  /\ last = NoCall
  /\ was = NoObserved
  /\ useOrder = <<>>
  /\ s2 = -1
  /\ s2ev = <<>>
  /\ reentrant = FALSE
  /\ Quiet
  /\ NoNew
  /\ NoTTL
  /\ NoExpiring
  /\ NoFilling
  /\ NoRW
  /\ NoSweeper
  /\ NoTS
  /\ \E type \in {"ExpirableLRU", "LRU"}, cleanup \in {"running", "none"} :
       closer = [type |-> type, done |-> "open", cleanup |-> cleanup]

\* ExpirableLRU.Close after c.mu.Lock(): select { case <-c.done: return;
\* default: }; close(c.done)
ExpirableLRU_Close_done(done) == [done |-> "closed", panic |-> FALSE]

\* LRU.Close after c.mu.Lock(): close(c.done), which panics on a closed channel
LRU_Close_done(done) == [done |-> "closed", panic |-> done = "closed"]

\* g calls Close, which starts with c.mu.Lock()
CloseCall(g) ==
  /\ ~panicked /\ pc[g] = "idle" /\ calls < MaxCalls
  /\ pc' = [pc EXCEPT ![g] = "waiting"]
  /\ calls' = calls + 1
  /\ UNCHANGED <<policy, wrapper, cache, evictedKeys, evictedVals, onEvictedCB, panicked,
                 exp, now, ticks, lock, pend, results, reentrant, lockLog, cbLog>>
  /\ UNCHANGED <<seqVars, extVars>>

\* g gets the mutex
CloseLock(g) ==
  /\ ~panicked /\ pc[g] = "waiting" /\ lock = Free
  /\ lock' = g
  /\ pc' = [pc EXCEPT ![g] = "closing"]
  /\ UNCHANGED <<policy, wrapper, cache, evictedKeys, evictedVals, onEvictedCB, panicked,
                 exp, now, ticks, pend, results, reentrant, calls, lockLog, cbLog>>
  /\ UNCHANGED <<seqVars, extVars>>

\* the body of Close; a panic ends the program once the deferred Unlock ran
CloseBody(g) ==
  /\ ~panicked /\ pc[g] = "closing"
  /\ LET closed(r) ==
           /\ closer' = [closer EXCEPT !.done = r.done]
           /\ panicked' = r.panic
           /\ lock' = IF r.panic THEN Free ELSE lock
     IN closed(IF closer.type = "ExpirableLRU" THEN ExpirableLRU_Close_done(closer.done)
               ELSE LRU_Close_done(closer.done))
  /\ pc' = [pc EXCEPT ![g] = "locked"]
  /\ UNCHANGED <<policy, wrapper, cache, evictedKeys, evictedVals, onEvictedCB,
                 exp, now, ticks, pend, results, reentrant, calls, lockLog, cbLog>>
  /\ UNCHANGED <<ctor, built, ttlc, tlast, elru, elast, ehist, fcache, fproc, fills, rw, sweeper, ts>>
  /\ UNCHANGED seqVars

\* the deferred c.mu.Unlock(); Close returns
CloseUnlock(g) ==
  /\ ~panicked /\ pc[g] = "locked" /\ lock = g
  /\ lock' = Free
  /\ pc' = [pc EXCEPT ![g] = "idle"]
  /\ UNCHANGED <<policy, wrapper, cache, evictedKeys, evictedVals, onEvictedCB, panicked,
                 exp, now, ticks, pend, results, reentrant, calls, lockLog, cbLog>>
  /\ UNCHANGED <<seqVars, extVars>>

\* the cleanup goroutine holds the mutex under this name
Cleaner == NumProcs + 1

\* case <-ticker.C: the cleanup goroutine takes the mutex for deleteExpired
CleanupLock ==
  /\ ~panicked /\ closer.cleanup = "running" /\ lock = Free
  /\ lock' = Cleaner
  /\ UNCHANGED <<policy, wrapper, cache, evictedKeys, evictedVals, onEvictedCB, panicked,
                 exp, now, ticks, pc, pend, results, reentrant, calls, lockLog, cbLog>>
  /\ UNCHANGED <<seqVars, extVars>>

\* deleteExpired is done (the cache is empty) and the mutex released
CleanupUnlock ==
  /\ ~panicked /\ lock = Cleaner
  /\ lock' = Free
  /\ UNCHANGED <<policy, wrapper, cache, evictedKeys, evictedVals, onEvictedCB, panicked,
                 exp, now, ticks, pc, pend, results, reentrant, calls, lockLog, cbLog>>
  /\ UNCHANGED <<seqVars, extVars>>

\* case <-done: return, in the cleanup goroutine
CleanupReturn ==
  /\ ~panicked /\ closer.cleanup = "running" /\ closer.done = "closed"
  /\ lock # Cleaner
  /\ closer' = [closer EXCEPT !.cleanup = "returned"]
  /\ UNCHANGED <<policy, wrapper, cache, evictedKeys, evictedVals, onEvictedCB, panicked>>
  /\ UNCHANGED <<ctor, built, ttlc, tlast, elru, elast, ehist, fcache, fproc, fills, rw, sweeper, ts>>
  /\ UNCHANGED <<seqVars, concVars>>

NextClose ==
  \/ \E g \in Procs : CloseCall(g)
  \/ \E g \in Procs : CloseLock(g)
  \/ \E g \in Procs : CloseBody(g)
  \/ \E g \in Procs : CloseUnlock(g)
  \/ CleanupLock
  \/ CleanupUnlock
  \/ CleanupReturn

SpecClose == InitClose /\ [][NextClose]_vars

\* ------------------------------------ ExpirableLRU and its sweeper
\* times are counted in periods of the ticker, ttl / numBuckets
SweepTTL == numBuckets

SweepKeys == 1..MaxSweepKey

\* the goroutines that call into the cache
Callers == 1..NumCallers

\* the callers are at work for MaxActive periods after construction and
\* again one ttl later; the clock is followed a little further
Active == now % SweepTTL <= MaxActive

SweepEnd == SweepTTL + MaxActive + 3

\* the sweeper takes the mutex under this name
Sweeper == NumProcs + 1

\* NewExpirableLRU(size, onEvict, ttl) with ttl > 0: the goroutine is started
\* and waits in its select
InitSweep ==
  /\ policy = "expirable"
  /\ wrapper = "part_000"
  /\ evictedKeys = <<>>
  /\ evictedVals = <<>>
  /\ onEvictedCB \in BOOLEAN
  /\ \E size \in Sizes : exp = NewExpirableLRU(size, SweepTTL)
  /\ cache = NoCache
  /\ twoq = NoTwoQ
  /\ arc = NoARC
  /\ panicked = FALSE
  /\ last = NoCall
  /\ was = NoObserved
  /\ useOrder = <<>>
  /\ s2 = -1
  /\ s2ev = <<>>
  /\ reentrant \in BOOLEAN
  /\ Quiet
  /\ NoNew
  /\ NoTTL
  /\ NoExpiring
  /\ NoClose
  /\ NoFilling
  /\ NoRW
  /\ NoTS
  /\ sweeper = [NoSweep EXCEPT !.pc = "select"]

SweepAdd(g, key, value) == Active /\ ExpAdd(g, key, value)

SweepClose(g) == Active /\ ExpClose(g)

\* the sweeper or a caller has a step to take
SweeperRunnable ==
  \/ sweeper.pc = "select" /\ (sweeper.tick \/ exp.done)
  \/ sweeper.pc \in {"lock1", "lock2"} /\ lock = Free
  \/ sweeper.pc = "sleeping" /\ now >= sweeper.wake
  \/ sweeper.pc = "deleting"

CallerRunnable ==
  \E g \in Procs : pc[g] = "locked" \/ (pc[g] = "callback" /\ (reentrant => lock = Free))

\* a ticker period passes: the ticker sends on ticker.C, whose buffer holds
\* one tick; goroutines that can run have run by then
SweepTick ==
  /\ now < SweepEnd /\ ~SweeperRunnable /\ ~CallerRunnable
  /\ now' = now + 1
  /\ sweeper' = [sweeper EXCEPT !.tick = TRUE]
  /\ UNCHANGED <<policy, wrapper, cache, evictedKeys, evictedVals, onEvictedCB, panicked,
                 exp, ticks, lock, pc, pend, results, reentrant, calls, lockLog, cbLog>>
  /\ UNCHANGED <<ctor, built, ttlc, tlast, elru, elast, ehist, closer, fcache, fproc,
                 fills, rw, ts>>
  /\ UNCHANGED seqVars

\* what a step of the sweeper leaves alone
SweepFrame ==
  /\ UNCHANGED <<policy, wrapper, cache, evictedKeys, evictedVals, onEvictedCB, panicked,
                 now, ticks, pc, pend, results, reentrant, calls, lockLog>>
  /\ UNCHANGED <<ctor, built, ttlc, tlast, elru, elast, ehist, closer, fcache, fproc,
                 fills, rw, ts>>
  /\ UNCHANGED seqVars

\* case <-ticker.C: res.deleteExpired() is called
SweepReceive ==
  /\ sweeper.pc = "select" /\ sweeper.tick
  /\ sweeper' = [sweeper EXCEPT !.pc = "lock1", !.tick = FALSE]
  /\ UNCHANGED <<exp, lock, cbLog>>
  /\ SweepFrame

\* case <-done: return
SweepReturn ==
  /\ sweeper.pc = "select" /\ exp.done
  /\ sweeper' = [sweeper EXCEPT !.pc = "returned"]
  /\ UNCHANGED <<exp, lock, cbLog>>
  /\ SweepFrame

\* variant: deleteExpired does not wait for the newest entry to expire
deleteExpired_begin_noWait(c, t) ==
  [bucketIdx |-> c.nextCleanupBucket, timeToExpire |-> 0]

\* deleteExpired: c.mu.Lock(); bucketIdx := c.nextCleanupBucket; timeToExpire
\* := time.Until(newestEntry); if it is positive: c.mu.Unlock(), time.Sleep
deleteExpired_begin(c, t) ==
  [bucketIdx |-> c.nextCleanupBucket,
   timeToExpire |-> c.buckets[c.nextCleanupBucket].newestEntry - t]

SweepLock ==
  /\ sweeper.pc = "lock1" /\ lock = Free
  /\ LET begun(b) ==
           IF b.timeToExpire > 0
           THEN /\ sweeper' = [sweeper EXCEPT !.pc = "sleeping", !.bucketIdx = b.bucketIdx,
                                              !.since = now, !.wake = now + b.timeToExpire]
                /\ lock' = Free
           ELSE /\ sweeper' = [sweeper EXCEPT !.pc = "deleting", !.bucketIdx = b.bucketIdx]
                /\ lock' = Sweeper
     IN begun(deleteExpired_begin(exp, now))
  /\ UNCHANGED <<exp, cbLog>>
  /\ SweepFrame

\* time.Sleep(timeToExpire) returns
SweepWake ==
  /\ sweeper.pc = "sleeping" /\ now >= sweeper.wake
  /\ sweeper' = [sweeper EXCEPT !.pc = "lock2"]
  /\ UNCHANGED <<exp, lock, cbLog>>
  /\ SweepFrame

\* the second c.mu.Lock()
SweepRelock ==
  /\ sweeper.pc = "lock2" /\ lock = Free
  /\ sweeper' = [sweeper EXCEPT !.pc = "deleting"]
  /\ lock' = Sweeper
  /\ UNCHANGED <<exp, cbLog>>
  /\ SweepFrame

\* for _, ent := range c.buckets[bucketIdx].entries { c.removeElement(ent) },
\* in the order keys gives; ev lists the entries removed
RECURSIVE deleteExpired_range(_, _, _, _)
deleteExpired_range(c, bucketIdx, keys, ev) ==
  IF keys = <<>> THEN Res(c, ev, Zero, Zero, ev # <<>>, FALSE)
  ELSE LET r == ExpirableLRU_removeElement(c, IndexOf(c.evictList, Head(keys)))
       IN deleteExpired_range(r.c, bucketIdx, Tail(keys), ev \o r.ev)

\* the rest of deleteExpired: the range loop, then c.nextCleanupBucket =
\* (c.nextCleanupBucket + 1) % numBuckets
deleteExpired_end(c, bucketIdx, keys) ==
  LET next(r) ==
        Res([r.c EXCEPT !.nextCleanupBucket = ((c.nextCleanupBucket + 1) % 256) % numBuckets],
            r.ev, Zero, Zero, r.ok, FALSE)
  IN next(deleteExpired_range(c, bucketIdx, keys, <<>>))

\* what the sweeper removed in one deleteExpired: key, expiresAt, time
Swept(c, keys, t) ==
  {<<keys[i], c.evictList[IndexOf(c.evictList, keys[i])].expiresAt, t>> : i \in DOMAIN keys}

\* the sweeper removes the entries of its bucket and unlocks; a callback that
\* calls back into the cache blocks on the mutex the sweeper holds
SweepDelete ==
  /\ sweeper.pc = "deleting"
  /\ \E keys \in Orders(exp.buckets[sweeper.bucketIdx].entries) :
       IF onEvictedCB /\ reentrant /\ keys # <<>>
       THEN /\ exp' = ExpirableLRU_removeElement(exp, IndexOf(exp.evictList, keys[1])).c
            /\ sweeper' = [sweeper EXCEPT !.pc = "callback",
                                          !.swept = Swept(exp, <<keys[1]>>, now)]
            /\ cbLog' = cbLog
            /\ lock' = lock
       ELSE LET done(r) ==
                  /\ exp' = r.c
                  /\ cbLog' = IF onEvictedCB THEN cbLog \o Tag("deleteExpired", r.ev)
                              ELSE cbLog
            IN /\ done(deleteExpired_end(exp, sweeper.bucketIdx, keys))
               /\ sweeper' = [sweeper EXCEPT !.pc = "select",
                                             !.swept = Swept(exp, keys, now)]
               /\ lock' = Free
  /\ SweepFrame

NextSweep ==
  \/ \E g \in Callers, key \in SweepKeys : SweepAdd(g, key, MaxVal)
  \/ \E g \in Callers : SweepClose(g)
  \/ \E g \in Callers : ExpCallback(g)
  \/ \E g \in Callers : ExpUnlock(g)
  \/ SweepTick
  \/ SweepReceive
  \/ SweepReturn
  \/ SweepLock
  \/ SweepWake
  \/ SweepRelock
  \/ SweepDelete

SpecSweep == InitSweep /\ [][NextSweep]_vars

\* the clock runs and every goroutine that can run does; a select with
\* several ready cases picks each of them sooner or later, and a goroutine
\* waiting for the mutex gets it sooner or later (sync.Mutex starvation mode)
SpecSweepFair ==
  /\ SpecSweep
  /\ WF_vars(SweepTick)
  /\ WF_vars(SweepReceive)
  /\ SF_vars(SweepReturn)
  /\ SF_vars(SweepLock)
  /\ WF_vars(SweepWake)
  /\ SF_vars(SweepRelock)
  /\ WF_vars(SweepDelete)
  /\ \A g \in Callers : WF_vars(ExpCallback(g)) /\ WF_vars(ExpUnlock(g))

\* ------------------------------------------------------- FillingCache
\* an expiration time is the zero time.Time ("zero"), a time already past
\* or a time later than any the goroutines reach
Expirations == {"zero", "past", "later"}

\* NewFillingCache(size, fr); entries holds every *expirableEntry allocated
\* so far (a goroutine may hold one that is in the list no more), evictList
\* the indices of the linked ones, front first
NewFillingCache(size) == [size |-> size, evictList |-> <<>>, entries |-> <<>>]

\* &expirableEntry{key: key} after entry.wg.Add(1)
expirableEntry(key) ==
  [key |-> key, value |-> Zero, exp |-> "zero", err |-> FALSE, wg |-> 1]

\* c.items[key]: the linked entry of key, 0 if there is none
FillingCache_item(c, key) ==
  LET found == {i \in DOMAIN c.evictList : c.entries[c.evictList[i]].key = key}
  IN IF found = {} THEN 0 ELSE c.evictList[CHOOSE i \in found : TRUE]

\* removeOldest
FillingCache_removeOldest(c) ==
  IF c.evictList = <<>> THEN c
  ELSE [c EXCEPT !.evictList = SubSeq(c.evictList, 1, Len(c.evictList) - 1)]

\* getEntry, under c.lock: the entry found is unlinked; a new entry is made
\* when none was found or the one found has a non-zero exp before now; the
\* entry is pushed to the front and the oldest one removed over size
FillingCache_getEntry(c, key) ==
  LET item == FillingCache_item(c, key)
      l1 == SelectSeq(c.evictList, LAMBDA e : e # item)
      tofill == item = 0 \/ c.entries[item].exp = "past"
      ent == IF tofill THEN Len(c.entries) + 1 ELSE item
      c1 == [c EXCEPT !.entries = IF tofill THEN Append(c.entries, expirableEntry(key))
                                   ELSE c.entries,
                      !.evictList = <<ent>> \o l1]
      trim(c2) == IF Len(c2.evictList) > c2.size THEN FillingCache_removeOldest(c2) ELSE c2
  IN [c |-> trim(c1), entry |-> ent, tofill |-> tofill]

\* the keys the goroutines ask for
FillKeys == 1..MaxFillKey

NoGet == [pc |-> "idle", key |-> Zero, entry |-> 0, value |-> Zero, exp |-> "zero",
          err |-> FALSE]

InitFill ==
  /\ policy = ""
  /\ wrapper = "part_000"
  /\ evictedKeys = <<>>
  /\ evictedVals = <<>>
  /\ onEvictedCB = FALSE
  /\ exp = NoExp
  /\ cache = NoCache
  /\ twoq = NoTwoQ
  /\ arc = NoARC
  /\ panicked = FALSE
  /\ last = NoCall
  /\ was = NoObserved
  /\ useOrder = <<>>
  /\ s2 = -1
  /\ s2ev = <<>>
  /\ reentrant = FALSE
  /\ Quiet
  /\ NoNew
  /\ NoTTL
  /\ NoExpiring
  /\ NoClose
  /\ NoRW
  /\ NoSweeper
  /\ NoTS
  /\ \E size \in Sizes \ {0} : fcache = NewFillingCache(size)
  /\ fproc = [g \in Procs |-> NoGet]
  /\ fills = <<>>

\* g calls Get(key): getEntry runs under the lock
FillGetEntry(g, key) ==
  /\ ~panicked /\ fproc[g].pc = "idle" /\ calls < MaxCalls
  /\ LET got(r) ==
           /\ fcache' = r.c
           /\ fproc' = [fproc EXCEPT ![g] = [NoGet EXCEPT !.pc = IF r.tofill THEN "fill" ELSE "wait",
                                                          !.key = key, !.entry = r.entry]]
     IN got(FillingCache_getEntry(fcache, key))
  /\ calls' = calls + 1
  /\ UNCHANGED fills
  /\ UNCHANGED <<policy, wrapper, cache, evictedKeys, evictedVals, onEvictedCB, panicked,
                 exp, now, ticks, lock, pc, pend, results, reentrant, lockLog, cbLog>>
  /\ UNCHANGED <<ctor, built, ttlc, tlast, elru, elast, ehist, closer, rw, sweeper, ts>>
  /\ UNCHANGED seqVars

\* value, exp, err := c.filler.Fill(key): the filler returns the number of
\* its call as the value; a zero exp is replaced by a time already past
FillLoad(g, expiration, err) ==
  /\ ~panicked /\ fproc[g].pc = "fill"
  /\ fills' = Append(fills, fproc[g].key)
  /\ fproc' = [fproc EXCEPT ![g].pc = "store", ![g].value = Len(fills) + 1,
                            ![g].exp = IF expiration = "zero" THEN "past" ELSE expiration,
                            ![g].err = err]
  /\ UNCHANGED fcache
  /\ UNCHANGED <<policy, wrapper, cache, evictedKeys, evictedVals, onEvictedCB, panicked>>
  /\ UNCHANGED <<ctor, built, ttlc, tlast, elru, elast, ehist, closer, rw, sweeper, ts>>
  /\ UNCHANGED <<seqVars, concVars>>

\* under c.lock: the entry is given value, exp and err; Get panics if its exp
\* is set already
FillStore(g) ==
  /\ ~panicked /\ fproc[g].pc = "store"
  /\ panicked' = (fcache.entries[fproc[g].entry].exp # "zero")
  /\ fcache' = [fcache EXCEPT !.entries[fproc[g].entry].value = fproc[g].value,
                              !.entries[fproc[g].entry].exp = fproc[g].exp,
                              !.entries[fproc[g].entry].err = fproc[g].err]
  /\ fproc' = [fproc EXCEPT ![g].pc = "signal"]
  /\ UNCHANGED fills
  /\ UNCHANGED <<policy, wrapper, cache, evictedKeys, evictedVals, onEvictedCB>>
  /\ UNCHANGED <<ctor, built, ttlc, tlast, elru, elast, ehist, closer, rw, sweeper, ts>>
  /\ UNCHANGED <<seqVars, concVars>>

\* entry.wg.Done(); return value, err
FillSignal(g) ==
  /\ ~panicked /\ fproc[g].pc = "signal"
  /\ fcache' = [fcache EXCEPT !.entries[fproc[g].entry].wg = 0]
  /\ fproc' = [fproc EXCEPT ![g].pc = "idle"]
  /\ UNCHANGED fills
  /\ UNCHANGED <<policy, wrapper, cache, evictedKeys, evictedVals, onEvictedCB, panicked>>
  /\ UNCHANGED <<ctor, built, ttlc, tlast, elru, elast, ehist, closer, rw, sweeper, ts>>
  /\ UNCHANGED <<seqVars, concVars>>

\* entry.wg.Wait() returns; return entry.value, entry.err
FillWait(g) ==
  /\ ~panicked /\ fproc[g].pc = "wait"
  /\ fcache.entries[fproc[g].entry].wg = 0
  /\ fproc' = [fproc EXCEPT ![g].pc = "idle",
                            ![g].value = fcache.entries[fproc[g].entry].value,
                            ![g].err = fcache.entries[fproc[g].entry].err]
  /\ UNCHANGED <<fcache, fills>>
  /\ UNCHANGED <<policy, wrapper, cache, evictedKeys, evictedVals, onEvictedCB, panicked>>
  /\ UNCHANGED <<ctor, built, ttlc, tlast, elru, elast, ehist, closer, rw, sweeper, ts>>
  /\ UNCHANGED <<seqVars, concVars>>

NextFill ==
  \/ \E g \in Procs, key \in FillKeys : FillGetEntry(g, key)
  \/ \E g \in Procs, expiration \in Expirations, err \in BOOLEAN : FillLoad(g, expiration, err)
  \/ \E g \in Procs : FillStore(g)
  \/ \E g \in Procs : FillSignal(g)
  \/ \E g \in Procs : FillWait(g)

SpecFill == InitFill /\ [][NextFill]_vars

\* ------------------------------------------- Cache under its RWMutex
\* pc[g] is "locked" while g holds c.lock exclusively (the method body has
\* run), "rlocked" after c.lock.RLock() and before the body of the simplelru
\* method, "rdone" between that body and c.lock.RUnlock()
Readers == {g \in Procs : pc[g] \in {"rlocked", "rdone"}}

\* the methods of Cache that take c.lock.RLock()
SharedOps == {"Contains", "Peek", "Keys", "Len", "GetOldest"}

Access(g, op, mode, wrote, raced) ==
  [g |-> g, op |-> op, mode |-> mode, wrote |-> wrote, raced |-> raced]

InitRW ==
  /\ policy \in {"lru", "sieve"}
  /\ wrapper = "part_000"
  /\ evictedKeys = <<>>
  /\ evictedVals = <<>>
  /\ onEvictedCB = FALSE
  /\ \E size \in Sizes \ {0} : cache = NewLRU(size, policy = "sieve")
  /\ twoq = NoTwoQ
  /\ arc = NoARC
  /\ exp = NoExp
  /\ panicked = FALSE
  /\ last = NoCall
  /\ was = NoObserved
  /\ useOrder = <<>>
  /\ s2 = -1
  /\ s2ev = <<>>
  /\ reentrant = FALSE
  /\ Quiet
  /\ NoNew
  /\ NoTTL
  /\ NoExpiring
  /\ NoClose
  /\ NoFilling
  /\ NoRW
  /\ NoSweeper
  /\ NoTS

\* c.lock.Lock() and the body of a method that takes the exclusive lock
Exclusive(g, op, r) ==
  /\ pc[g] = "idle" /\ lock = Free /\ Readers = {} /\ calls < MaxCalls /\ ~panicked
  /\ lock' = g
  /\ cache' = r.c
  /\ panicked' = r.panic
  /\ pc' = [pc EXCEPT ![g] = "locked"]
  /\ results' = [results EXCEPT ![g] = [op |-> op, k |-> r.k, v |-> r.v, ok |-> r.ok]]
  /\ calls' = calls + 1
  /\ rw' = Access(g, op, "exclusive", r.c # cache, FALSE)
  /\ UNCHANGED <<policy, wrapper, evictedKeys, evictedVals, onEvictedCB,
                 exp, now, ticks, pend, reentrant, lockLog, cbLog>>
  /\ UNCHANGED <<ctor, built, ttlc, tlast, elru, elast, ehist, closer, fcache, fproc, fills, sweeper, ts>>
  /\ UNCHANGED seqVars

RWAdd(g, key, value) == Exclusive(g, "Add", LRU_Add(cache, key, value))

RWGet(g, key) == Exclusive(g, "Get", LRU_Get(cache, key))

RWResize(g, size) == Exclusive(g, "Resize", LRU_Resize(cache, size))

\* c.lock.Unlock()
RWUnlock(g) ==
  /\ pc[g] = "locked" /\ lock = g /\ ~panicked
  /\ lock' = Free
  /\ pc' = [pc EXCEPT ![g] = "idle"]
  /\ UNCHANGED <<policy, wrapper, cache, evictedKeys, evictedVals, onEvictedCB, panicked,
                 exp, now, ticks, pend, results, reentrant, calls, lockLog, cbLog>>
  /\ UNCHANGED <<seqVars, extVars>>

\* c.lock.RLock() in one of the methods that take the shared lock
RLock(g, op, key) ==
  /\ pc[g] = "idle" /\ lock = Free /\ calls < MaxCalls /\ ~panicked
  /\ pc' = [pc EXCEPT ![g] = "rlocked"]
  /\ pend' = [pend EXCEPT ![g] = <<<<op, key, Zero>>>>]
  /\ calls' = calls + 1
  /\ UNCHANGED <<policy, wrapper, cache, evictedKeys, evictedVals, onEvictedCB, panicked,
                 exp, now, ticks, lock, results, reentrant, lockLog, cbLog>>
  /\ UNCHANGED <<seqVars, extVars>>

\* the simplelru method called between RLock and RUnlock
SharedBody(op, key) ==
  IF op = "Contains" THEN Res(cache, <<>>, key, Zero, LRU_Contains(cache, key), FALSE)
  ELSE IF op = "Peek" THEN LRU_Peek(cache, key)
  ELSE IF op = "Keys" THEN Res(cache, <<>>, Zero, Len(LRU_Keys(cache)), TRUE, FALSE)
  ELSE IF op = "Len" THEN Res(cache, <<>>, Zero, LRU_Len(cache), TRUE, FALSE)
  ELSE LRU_GetOldest(cache)

\* g runs the body under the shared lock; the access races when it writes the
\* hand or a visited bit that another holder of the shared lock reads in
\* GetOldest
RBody(g) ==
  /\ pc[g] = "rlocked" /\ ~panicked
  /\ LET op == pend[g][1][1]
         others == {h \in Readers \ {g} : pend[h][1][1] = "GetOldest"}
         done(r) ==
           /\ cache' = r.c
           /\ results' = [results EXCEPT ![g] = [op |-> op, k |-> r.k, v |-> r.v, ok |-> r.ok]]
           /\ rw' = Access(g, op, "shared", r.c # cache, r.c # cache /\ others # {})
     IN done(SharedBody(op, pend[g][1][2]))
  /\ pc' = [pc EXCEPT ![g] = "rdone"]
  /\ UNCHANGED <<policy, wrapper, evictedKeys, evictedVals, onEvictedCB, panicked,
                 exp, now, ticks, lock, pend, reentrant, calls, lockLog, cbLog>>
  /\ UNCHANGED <<ctor, built, ttlc, tlast, elru, elast, ehist, closer, fcache, fproc, fills, sweeper, ts>>
  /\ UNCHANGED seqVars

\* c.lock.RUnlock()
RUnlock(g) ==
  /\ pc[g] = "rdone" /\ ~panicked
  /\ pc' = [pc EXCEPT ![g] = "idle"]
  /\ pend' = [pend EXCEPT ![g] = <<>>]
  /\ UNCHANGED <<policy, wrapper, cache, evictedKeys, evictedVals, onEvictedCB, panicked,
                 exp, now, ticks, lock, results, reentrant, calls, lockLog, cbLog>>
  /\ UNCHANGED <<seqVars, extVars>>

\* Cap() reads the size of the simplelru cache without taking the lock; the
\* read races with a Resize whose critical section is open
RWCap(g) ==
  /\ pc[g] = "idle" /\ calls < MaxCalls /\ ~panicked
  /\ results' = [results EXCEPT ![g] = [op |-> "Cap", k |-> Zero, v |-> LRU_Cap(cache),
                                        ok |-> TRUE]]
  /\ calls' = calls + 1
  /\ rw' = Access(g, "Cap", "none", FALSE,
                  \E h \in Procs \ {g} : lock = h /\ results[h].op = "Resize")
  /\ UNCHANGED <<policy, wrapper, cache, evictedKeys, evictedVals, onEvictedCB, panicked,
                 exp, now, ticks, lock, pc, pend, reentrant, lockLog, cbLog>>
  /\ UNCHANGED <<ctor, built, ttlc, tlast, elru, elast, ehist, closer, fcache, fproc, fills, sweeper, ts>>
  /\ UNCHANGED seqVars

NextRW ==
  \/ \E g \in Procs, key \in Keys, value \in Vals : RWAdd(g, key, value)
  \/ \E g \in Procs, key \in Keys : RWGet(g, key)
  \/ \E g \in Procs, size \in Sizes \ {0} : RWResize(g, size)
  \/ \E g \in Procs : RWUnlock(g)
  \/ \E g \in Procs, op \in SharedOps, key \in Keys : RLock(g, op, key)
  \/ \E g \in Procs : RBody(g)
  \/ \E g \in Procs : RUnlock(g)
  \/ \E g \in Procs : RWCap(g)

SpecRW == InitRW /\ [][NextRW]_vars

\* ============================================================== claims
\* C1: in LRU and Sieve mode the number of resident entries never exceeds
\* the capacity, after every completed operation
C1_LenAtMostCap ==
  (policy \in {"lru", "sieve"} /\ ~panicked) => LRU_Len(cache) <= LRU_Cap(cache)

\* C2: in ARC the resident entries |T1| + |T2| never exceed the capacity c
C2_ARCResidentAtMostSize ==
  (policy = "arc") => LRU_Len(arc.t1) + LRU_Len(arc.t2) <= arc.size

\* C3: in 2Q the resident entries |recent| + |frequent| never exceed the
\* capacity c
C3_TwoQResidentAtMostSize ==
  (policy = "2q") => LRU_Len(twoq.recent) + LRU_Len(twoq.frequent) <= twoq.size

\* C4: the user callback of the thread-safe and of the expirable cache is
\* never invoked by a goroutine that holds the cache's lock
C4_NoCallbackUnderLock == \A g \in Procs : pc[g] = "callback" => lock # g

\* C5: with a callback registered, a completed call has invoked the callback
\* exactly once, with its key and value, for every resident entry that left
\* the cache in that call, in the order they left, and for nothing else
C5_CallbackOncePerLeavingEntry ==
  (policy \in {"lru", "sieve"} /\ onEvictedCB /\ ~panicked) => last.cb = last.left

\* C6: the user callbacks for the entries evicted by concurrent Adds are
\* invoked in the order in which the Adds held the lock
C6_CallbackOrderIsLockOrder ==
  LET IsAdd(e) == e[1] = "Add"
      cbs == SelectSeq(cbLog, IsAdd)
      evs == SelectSeq(lockLog, IsAdd)
  IN onEvictedCB => (Len(cbs) <= Len(evs) /\ cbs = SubSeq(evs, 1, Len(cbs)))

\* C7: in every policy, while the capacity is at least 1, a Get of the key
\* right after an Add(k, v) of a key that was not resident returns (v, true)
C7_GetAfterAdd ==
  (last.op = "Add" /\ ~last.wasRes /\ ~panicked /\ CapOf >= 1)
    => (GetOf(last.key).ok /\ GetOf(last.key).v = last.val)

\* an Add of a new key that evicted a resident entry has completed
C7_Witness ==
  /\ last.op = "Add" /\ ~last.wasRes /\ ~panicked /\ CapOf >= 1
  /\ last.left # <<>>
  /\ GetOf(last.key).v = last.val

\* C8: in LRU mode an Add of a resident key replaces the value, makes the key
\* the most recently used one, evicts nothing and invokes no callback; so on
\* a cache of capacity 2, Add(1), Add(2), Add(1), Add(3) evicts exactly key 2
\* and leaves Keys() = [1, 3]
C8_AddResidentKey ==
  (policy = "lru") =>
    /\ (last.op = "Add" /\ last.wasRes) =>
         /\ LRU_Peek(cache, last.key).v = last.val
         /\ LRU_Keys(cache)[LRU_Len(cache)] = last.key
         /\ LRU_Len(cache) = was.len
         /\ last.left = <<>>
         /\ last.cb = <<>>
         /\ ~last.evicted
    /\ (s2 = Len(S2Keys)) =>
         /\ Firsts(s2ev) = <<2>>
         /\ LRU_Keys(cache) = <<1, 3>>

\* the four Adds of the scenario have completed
C8_Witness == policy = "lru" /\ s2 = Len(S2Keys) /\ last.op = "Add"

\* C9: in LRU mode Keys() lists the resident keys from least to most recently
\* used (by Add and Get only), and an Add of a new key to a full cache
\* evicts exactly the first key of that listing
C9_KeysOldestFirst ==
  (policy = "lru") =>
    /\ LRU_Keys(cache) = useOrder
    /\ (/\ last.op = "Add" /\ ~last.wasRes
        /\ was.len >= LRU_Cap(cache) /\ was.len >= 1)
         => Firsts(last.left) = <<was.keys[1]>>

\* an Add to a full cache evicted while the cache held a reordered listing
C9_Witness ==
  /\ policy = "lru" /\ last.op = "Add" /\ ~last.wasRes /\ last.left # <<>>
  /\ LRU_Len(cache) = 2
  /\ LRU_Keys(cache)[1] > LRU_Keys(cache)[2]

\* C10: in every policy Contains and Peek leave Keys() and the next eviction
\* victim as they were
C10_ContainsPeekKeepOrder ==
  (last.op \in {"Contains", "Peek"}) =>
    (KeysOf = was.keys /\ NextVictims = was.victims)

\* a Contains or Peek hit on the resident key that is next to be listed first
C10_Witness ==
  /\ last.op \in {"Contains", "Peek"} /\ last.ok
  /\ LenOf >= 2 /\ KeysOf[1] = last.key

C12_RemoveFalseNoEffect ==
  (last.op = "Remove" /\ ~panicked) =>
    /\ last.ok <=> last.wasRes
    /\ ~last.ok => Observed = was

\* C12 as amended: Remove(k) returns true iff k was resident when it was
\* called, and a Remove(k) that returned false leaves Len(), Keys() and the
\* value of every resident key as they were; in LRU and Sieve mode it also
\* leaves what the next Add of any key evicts as it was (in 2Q and ARC it
\* drops k from the ghost lists, which later Adds of k can show)
C12_RemoveFalseKeepsResidents ==
  (last.op = "Remove" /\ ~panicked) =>
    /\ last.ok <=> last.wasRes
    /\ ~last.ok =>
         /\ LenOf = was.len
         /\ KeysOf = was.keys
         /\ Observed.vals = was.vals
         /\ (policy \in {"lru", "sieve"}) => Observed = was

\* a Remove of a key held only in a ghost list of ARC has returned false
C12_Witness ==
  /\ policy = "arc" /\ last.op = "Remove" /\ ~last.ok
  /\ LenOf >= 1
  /\ Observed.victims # was.victims

\* C14: Keys() of a 2Q cache and of an ARC cache lists the keys of the
\* frequent list (frequent / T2) and then the keys of the recent list
\* (recent / T1), each part from the oldest to the newest entry
C14_KeysFrequentThenRecent ==
  /\ (policy = "2q") =>
       TwoQueueCache_Keys(twoq) = LRU_Keys(twoq.frequent) \o LRU_Keys(twoq.recent)
  /\ (policy = "arc") =>
       ARCCache_Keys(arc) = LRU_Keys(arc.t2) \o LRU_Keys(arc.t1)

\* C20: after every completed operation on an ARC cache of size c the ghost
\* lists hold at most c keys: |B1| + |B2| <= c
C20_ARCGhostsAtMostSize ==
  (policy = "arc") => LRU_Len(arc.b1) + LRU_Len(arc.b2) <= arc.size

\* an Add to a full ARC cache evicted an entry into a ghost list, and the
\* ghost lists now hold as many keys as the cache has capacity
C20_Witness ==
  /\ policy = "arc" /\ last.op = "Add" /\ last.left # <<>>
  /\ LRU_Len(arc.b1) + LRU_Len(arc.b2) = arc.size

\* C13: a constructor called with capacity <= 0, or New2QParams called with a
\* recent or ghost ratio outside [0.0, 1.0], returns an error and no cache
\* object
C13_BadArgsNoCache ==
  (built.done /\ (ctor.size <= 0
                  \/ (ctor.fn = "New2QParams"
                      /\ (ctor.recentRatio < 0 \/ ctor.recentRatio > 100
                          \/ ctor.ghostRatio < 0 \/ ctor.ghostRatio > 100))))
    => (built.err /\ built.isNil)

\* C15: in a cache whose entries expire, Get(k) and Peek(k) return absent for
\* an entry whose expiry time has passed, whether or not it has been removed yet
C15_ExpiredIsAbsent ==
  (tlast.op \in {"Get", "Peek"} /\ tlast.expired) => ~tlast.ok

\* C16: with expireAfterAccess a successful Get(k) at time t sets the expiry
\* of the entry to t + ttl: every resident entry expires ttl after its last
\* Add or successful Get, and Get and Peek find it exactly until then, so an
\* entry read at intervals shorter than ttl stays
C16_ExpireAfterAccess ==
  (elru.expireType = expireAfterAccess) =>
    /\ \A k \in items(elru.lru) : expirationTimeOf(elru, k) = Due(k)
    /\ (elast.op = "Get" /\ elast.ok) =>
         /\ LRU_Contains(elru.lru, elast.key)
         /\ expirationTimeOf(elru, elast.key) = elast.t + elru.expiration
    /\ (elast.op \in {"Get", "Peek"}) =>
         (elast.ok <=>
            /\ elast.resident
            /\ elast.t < (IF elast.read > elast.written THEN elast.read ELSE elast.written)
                           + elru.expiration)

\* a Get is a hit at a time when the entry would have been expired had it
\* not been read since its Add
C16_Witness ==
  /\ elru.expireType = expireAfterAccess
  /\ elast.op = "Get" /\ elast.ok
  /\ elast.t >= elast.written + elru.expiration

C18_CloseNeverPanics ==
  /\ ~panicked
  /\ (lock \in Procs) => (pc[lock] \in {"closing", "locked"})

\* C19: goroutines that are inside Get for the same key of a FillingCache at
\* the same time share one entry: the filler is called once for them and each
\* returns the value and the error of that call
C19_OneFillPerKey ==
  \A g \in Procs, h \in Procs :
    (fproc[g].pc # "idle" /\ fproc[h].pc # "idle" /\ fproc[g].key = fproc[h].key)
      => fproc[g].entry = fproc[h].entry

\* C21: the adaptation parameter p of an ARC cache is 0 after construction
\* and satisfies 0 <= p <= size after every operation, ghost hits (which
\* move p by delta = max(1, |other ghost| / |hit ghost|)) included
C21_PWithinSize ==
  (policy = "arc") =>
    /\ NewARC(arc.size).p = 0
    /\ 0 <= arc.p /\ arc.p <= arc.size

\* an Add that hit a ghost list has moved p up to size and run replace
C21_Witness ==
  /\ policy = "arc" /\ last.op = "Add" /\ last.left # <<>>
  /\ arc.p = arc.size /\ arc.size = MaxSize

\* C22: after every operation on a 2Q or ARC cache no key is present in more
\* than one resident list (recent and frequent; T1 and T2), and every key
\* reported resident (by Contains, Keys and Len) is held by exactly one of them
C22_OneResidentList ==
  LET in(l, k) == \E i \in DOMAIN LRU_Keys(l) : LRU_Keys(l)[i] = k
      once(ks, k) == Cardinality({i \in DOMAIN ks : ks[i] = k}) = 1
      disjoint(a, b, ks, contains(_)) ==
        \A k \in Keys :
          /\ ~(in(a, k) /\ in(b, k))
          /\ contains(k) <=> (in(a, k) \/ in(b, k))
          /\ contains(k) <=> once(ks, k)
          /\ ~contains(k) => \A i \in DOMAIN ks : ks[i] # k
      twoqContains(k) == TwoQueueCache_Contains(twoq, k)
      arcContains(k) == ARCCache_Contains(arc, k)
  IN /\ (policy = "2q") =>
          /\ disjoint(twoq.recent, twoq.frequent, TwoQueueCache_Keys(twoq), twoqContains)
          /\ TwoQueueCache_Len(twoq) = Len(TwoQueueCache_Keys(twoq))
     /\ (policy = "arc") =>
          /\ disjoint(arc.t1, arc.t2, ARCCache_Keys(arc), arcContains)
          /\ ARCCache_Len(arc) = Len(ARCCache_Keys(arc))

\* a Get on a 2Q cache has moved its key from recent to frequent while
\* another key stays in recent
C22_Witness ==
  /\ policy = "2q" /\ last.op = "Get" /\ last.ok
  /\ LRU_Len(twoq.recent) >= 1
  /\ LRU_Len(twoq.frequent) = 1
  /\ LRU_Contains(twoq.frequent, last.key)
  /\ LRU_Len(twoq.recentEvict) >= 1

\* C23: after every operation on a 2Q cache of size c with ghost ratio g the
\* ghost list recentEvict holds at most floor(c * g) keys (ratios in percent:
\* n = floor(c * g) iff 100 n <= c g < 100 (n + 1))
C23_GhostAtMostFloor ==
  (policy = "2q") =>
    /\ \A g \in Ratios :
         New2QParamsOk(twoq.size, 0, g) =>
           LET n == LRU_Cap(New2QParams(twoq.size, 0, g).recentEvict)
           IN 100 * n <= twoq.size * g /\ twoq.size * g < 100 * (n + 1)
    /\ \E g \in Ratios :
         /\ New2QParamsOk(twoq.size, 0, g)
         /\ LRU_Cap(New2QParams(twoq.size, 0, g).recentEvict) = LRU_Cap(twoq.recentEvict)
    /\ LRU_Len(twoq.recentEvict) <= LRU_Cap(twoq.recentEvict)

\* an Add to a full 2Q cache of size 2 with ghost ratio 0.5 has evicted an
\* entry of recent into the ghost list, which is full with that one key
C23_Witness ==
  /\ policy = "2q" /\ last.op = "Add" /\ last.left # <<>>
  /\ twoq.size = 2 /\ LRU_Cap(twoq.recentEvict) = 1
  /\ LRU_Keys(twoq.recentEvict) = <<last.left[1][1]>>
  /\ LRU_Len(twoq.frequent) = 1

\* C24: the shared state of a Cache is modified only while the exclusive
\* lock is held: the methods that take only the shared lock (Contains, Peek,
\* Keys, Len, GetOldest) and Cap modify nothing and race with no other access
C24_WritesUnderExclusiveLock ==
  /\ rw.wrote => rw.mode = "exclusive"
  /\ (rw.mode \in {"shared", "none"}) => (~rw.wrote /\ ~rw.raced)

C26_SieveEvictsFirstUnvisited ==
  [][(/\ policy = "sieve" /\ last = NoCall /\ Len(cache.evictList) > 0
      /\ \/ last'.op = "RemoveOldest"
         \/ (last'.op = "Add" /\ ~last'.wasRes /\ Len(cache.evictList) >= cache.size))
       => LET l == cache.evictList
              h == IF cache.hand.kind = "live" THEN IndexOf(l, cache.hand.Key) ELSE Len(l)
              atOrAfter == {i \in 1..h : ~l[i].Visited}
              before == {i \in (h + 1)..Len(l) : ~l[i].Visited}
              max(S) == CHOOSE i \in S : \A j \in S : j <= i
              victim == IF atOrAfter # {} THEN max(atOrAfter)
                        ELSE IF before # {} THEN max(before) ELSE h
              passed == IF atOrAfter # {} THEN (victim + 1)..h
                        ELSE IF before # {} THEN (1..h) \cup ((victim + 1)..Len(l))
                        ELSE 1..Len(l)
              cleared == [i \in 1..Len(l) |->
                            IF i \in passed THEN [l[i] EXCEPT !.Visited = FALSE] ELSE l[i]]
              kept == RemoveAt(cleared, victim)
          IN /\ ~panicked'
             /\ last'.left = <<<<l[victim].Key, l[victim].Value>>>>
             /\ cache'.evictList = IF last'.op = "Add"
                                   THEN PushFront(kept, last'.key, last'.val) ELSE kept
             /\ (last'.op = "RemoveOldest" /\ Len(l) >= 2) =>
                  \A i \in 1..Len(l) : l[i].Visited => LRU_Contains(cache', l[i].Key)]_vars

\* C27: the victim scan of Sieve (getSieveCandidate) terminates in every
\* reachable state of the cache, with all entries visited and with a single
\* entry too, and examines at most 2 * Len() entries
C27_SieveScanBounded ==
  (policy = "sieve" /\ Len(cache.evictList) > 0) =>
    LET h0 == IF cache.hand.kind = "nil" THEN Back(cache.evictList) ELSE cache.hand
    IN /\ getSieveCandidate(cache).hand.kind # "nil"
       /\ SieveScan(cache.evictList, h0)[3] <= 2 * Len(cache.evictList)

\* C28: an Add to a 2Q cache evicts at most one resident entry, and only when
\* recent.len + frequent.len >= size; the evicted entry is the oldest entry of
\* recent (and its key is then in the ghost list) if recent.len > 0 and
\* (recent.len > recentSize, or recent.len = recentSize and the added key was
\* not a ghost hit), otherwise it is the oldest entry of frequent
C28_TwoQAddEvictsOne ==
  [][(policy = "2q" /\ last = NoCall /\ last'.op = "Add")
       => LET recentLen == LRU_Len(twoq.recent)
              freqLen == LRU_Len(twoq.frequent)
              ghostHit == LRU_Contains(twoq.recentEvict, last'.key)
              gone == {k \in Keys : /\ TwoQueueCache_Contains(twoq, k)
                                    /\ ~TwoQueueCache_Contains(twoq', k)}
          IN /\ Cardinality(gone) <= 1
             /\ (gone # {}) =>
                  /\ recentLen + freqLen >= twoq.size
                  /\ IF recentLen > 0 /\ (recentLen > twoq.recentSize
                                          \/ (recentLen = twoq.recentSize /\ ~ghostHit))
                     THEN /\ gone = {LRU_Keys(twoq.recent)[1]}
                          /\ LRU_Contains(twoq'.recentEvict, LRU_Keys(twoq.recent)[1])
                     ELSE /\ freqLen > 0
                          /\ gone = {LRU_Keys(twoq.frequent)[1]}]_vars

\* C29: replace(in_b2), as called by an ARC Add (after p was adapted), evicts
\* the oldest entry of T1 into B1 when |T1| > 0 and (|T1| > p, or |T1| = p and
\* in_b2), and otherwise evicts the oldest entry of T2 into B2; called with
\* |T1| + |T2| >= size >= 1 it removes exactly one resident entry
C29_ReplaceEvictsOne ==
  [][(policy = "arc" /\ last'.op = "Add" /\ ~ARCCache_Contains(arc, last'.key)
      /\ ARCCache_Len(arc) >= arc.size /\ arc.size >= 1) =>
       LET c0 == [arc EXCEPT !.p = arc'.p]
           in_b2 == LRU_Contains(arc.b2, last'.key)
           r == replace(c0, in_b2)
           t1Len == LRU_Len(c0.t1)
           fromT1 == t1Len > 0 /\ (t1Len > c0.p \/ (t1Len = c0.p /\ in_b2))
       IN /\ r.ok
          /\ ARCCache_Len(r.c) = ARCCache_Len(c0) - 1
          /\ last'.evicted /\ last'.left = <<<<r.k, r.v>>>>
          /\ IF fromT1
             THEN /\ r.k = LRU_Keys(c0.t1)[1]
                  /\ LRU_Keys(r.c.t1) = Tail(LRU_Keys(c0.t1))
                  /\ LRU_Contains(r.c.b1, r.k)
                  /\ r.c.t2 = c0.t2 /\ r.c.b2 = c0.b2
             ELSE /\ LRU_Len(c0.t2) > 0
                  /\ r.k = LRU_Keys(c0.t2)[1]
                  /\ LRU_Keys(r.c.t2) = Tail(LRU_Keys(c0.t2))
                  /\ LRU_Contains(r.c.b2, r.k)
                  /\ r.c.t1 = c0.t1 /\ r.c.b1 = c0.b1]_vars

\* C30: an ARC Add removes at most one resident entry, it reports an eviction
\* (return value true, out-parameters set to the victim's key and value)
\* exactly when a resident entry left, and the entry it reports is that one;
\* keys dropped from the ghost lists B1 and B2 are never reported
C30_ARCAddReportsVictim ==
  [][(policy = "arc" /\ last'.op = "Add") =>
       LET r == ARCCache_Add(arc, last'.key, last'.val)
           resident(c) == {k \in Keys : ARCCache_Contains(c, k)}
           ghost(c) == {k \in Keys : LRU_Contains(c.b1, k) \/ LRU_Contains(c.b2, k)}
           gone == resident(arc) \ resident(arc')
       IN /\ Cardinality(gone) <= 1
          /\ last'.evicted = (gone # {})
          /\ last'.evicted =>
               /\ gone = {r.k}
               /\ r.v = ARCCache_Peek(arc, r.k).v
               /\ r.k \notin ghost(arc)
          /\ resident(arc') = (resident(arc) \ gone) \cup {last'.key}]_vars

C32_SweeperTerminates == exp.done ~> (sweeper.pc = "returned")

\* C34: every entry the sweeper deletes from a bucket has expiresAt <= now at
\* the moment it is deleted; entries added or updated while the sweeper slept
\* without the mutex are not in the bucket it deletes
C34_SweeperDeletesExpiredOnly ==
  \A s \in sweeper.swept : s[2] <= s[3]

\* the sweeper slept, an entry was added or updated meanwhile and is still
\* resident after the sweeper deleted its bucket
C34_Witness ==
  /\ sweeper.pc = "select" /\ sweeper.swept # {}
  /\ sweeper.since < sweeper.wake
  /\ \A s \in sweeper.swept : s[3] = now /\ s[3] = sweeper.wake
  /\ \E i \in DOMAIN exp.evictList :
       /\ sweeper.since <= exp.evictList[i].expiresAt - exp.ttl
       /\ exp.evictList[i].expiresAt - exp.ttl < sweeper.wake

\* C35: in the bucketed expirable LRU every resident entry is recorded in
\* exactly one bucket, the one its expireBucket field names, every key
\* recorded in a bucket is resident, and nextCleanupBucket and the bucket
\* index addToBucket computes are within 0..numBuckets - 1
C35_BucketsMatchEntries ==
  (policy = "expirable") =>
    /\ \A i \in DOMAIN exp.evictList :
         LET e == exp.evictList[i] IN
         /\ e.expireBucket \in 0..(numBuckets - 1)
         /\ \A b \in DOMAIN exp.buckets :
              (e.Key \in exp.buckets[b].entries) <=> (b = e.expireBucket)
    /\ \A b \in DOMAIN exp.buckets : exp.buckets[b].entries \subseteq items(exp)
    /\ exp.nextCleanupBucket \in 0..(numBuckets - 1)
    /\ ((numBuckets + exp.nextCleanupBucket - 1) % 256) % numBuckets \in 0..(numBuckets - 1)
    /\ DOMAIN exp.buckets = 0..(numBuckets - 1)

\* an entry was added again after the sweeper moved on: two resident entries
\* are in different buckets, one of them past the wrap of the bucket index
C35_Witness ==
  /\ policy = "expirable" /\ Len(exp.evictList) = 2
  /\ exp.evictList[1].expireBucket # exp.evictList[2].expireBucket
  /\ exp.evictList[1].expireBucket = 0
  /\ exp.evictList[2].expireBucket = numBuckets - 1
  /\ exp.nextCleanupBucket = 1

\* C33: in a Sieve cache, after any sequence of Add, Get, Remove, RemoveOldest,
\* GetOldest, Resize and Purge the hand is nil or refers to an entry that is
\* linked in the list and present in the index (so that an eviction cannot
\* unlink an entry that was removed before), and Len() equals the number of
\* indexed keys
C33_SieveHandIsLinked ==
  (policy = "sieve") =>
    /\ cache.hand.kind # "stale"
    /\ (cache.hand.kind = "live") => cache.hand.Key \in items(cache)
    /\ LRU_Len(cache) = Cardinality(items(cache))

\* C36: in ExpiringCache over an LRU, a 2Q or an ARC, after every operation the
\* set of keys in the expiry list equals the set of keys resident in the
\* backing cache
C36_ExpireListMatchesBacking ==
  IsBacked => expireListKeys(elru) = lruCache_Keys(elru.lru)

\* C37: in LruWithTTL the cleanup goroutines never remove an entry before the
\* ttl of the most recent AddWithTTL of its key has elapsed, even when the key
\* was added earlier with another ttl whose timer is still pending
C37_NotRemovedBeforeTTL ==
  (IsLruWithTTL /\ tlast.op = "Remove" /\ tlast.ok)
    => ~tlast.early

\* C38: constructing a 2Q cache succeeds for every size >= 1 with any ratios
\* in [0.0, 1.0], the default ones included, also when floor(size *
\* ghost_ratio) is 0
C38_New2QSucceeds ==
  (/\ built.done /\ ctor.fn = "New2QParams" /\ ctor.size >= 1
   /\ ctor.recentRatio >= 0 /\ ctor.recentRatio <= 100
   /\ ctor.ghostRatio >= 0 /\ ctor.ghostRatio <= 100)
    => ~built.err /\ ~built.isNil

\* C39: in the channel-based LRU every public call returns: work() does not
\* dereference a nil list element, no caller waits for a reply that work()
\* will not send, GetOldest and RemoveOldest on an empty cache return
\* ok = false, and Keys() returns every resident key, the newest included
C39_CallsReturn ==
  IsTS =>
    /\ ~ts.dead
    /\ ~(ts.caller.pc = "wait" /\ ts.ctl = <<>>)
    /\ (ts.last.op = "Keys") =>
          {ts.last.keys[i] : i \in DOMAIN ts.last.keys} = ts.last.resident

\* C40: in the thread-safe wrapper the buffers evictedKeys and evictedVals are
\* empty whenever no call holds the lock, and the pairs a call hands to the
\* user callback are entries that left the cache during that very call, each
\* of them once
C40_BufferEmptyAtUnlock ==
  (policy \in {"lru", "sieve"} /\ ~panicked) =>
    /\ evictedKeys = <<>>
    /\ evictedVals = <<>>
    /\ \A i \in DOMAIN last.cb :
         /\ \E j \in DOMAIN last.left : last.left[j] = last.cb[i]
         /\ \A j \in DOMAIN last.cb : last.cb[j] = last.cb[i] => j = i

====
